---------------------------- MODULE Spec2Model ----------------------------
(***************************************************************************)
(* The kernel contract of a xuperunion node: the dispatcher (Run/Rollback  *)
(* under the kernel mutex), its method tables, the argument validators,    *)
(* the guarded parameter updates with their rollbacks, the chain lifecycle *)
(* operations and the historical-data rewrite.                             *)
(*                                                                         *)
(* Specifications:                                                         *)
(*   Spec        the root-chain kernel driven by the single-threaded block *)
(*               pipeline with parameter-update descriptors;               *)
(*   SpecChain   kernels of the root chain and of a side chain with        *)
(*               chain-lifecycle descriptors, direct calls of              *)
(*               CreateBlockChain and failing collaborators;               *)
(*   SpecRewrite a kernel with historical-data-rewrite descriptors;        *)
(*   SpecConc    threads calling Run, Rollback and SetContext on two       *)
(*               kernel instances, at the granularity of the mutex.        *)
(* In the first three, last and pre record the latest invocation and the   *)
(* state it started from until the caller returns.                         *)
(***************************************************************************)
EXTENDS Integers, Sequences, FiniteSets, TLC

(***************************************************************************)
(* Bounds of the model.                                                    *)
(***************************************************************************)
\* longest reserved-contract list carried by a descriptor or held live
MaxLen == 2

(***************************************************************************)
(* Dynamically typed argument values, as the JSON decoder yields them.     *)
(* A float64 is whole + 1/2 when half is TRUE (whole >= 0).                *)
(***************************************************************************)
Nil == [kind |-> "nil"]
Flt(w, h) == [kind |-> "float64", whole |-> w, half |-> h]
Str(s) == [kind |-> "string", val |-> s]
Lst(q) == [kind |-> "list", val |-> q]
Map(r) == [kind |-> "map", val |-> r]

\* Go's int64(f) of a non-negative float64 in range: truncation toward zero
Int64Of(f) == f.whole

\* the float64 is exactly an int64
IsIntegral(f) == f.kind = "float64" /\ ~f.half

\* the numbers a descriptor offers as old_X and as new_X
OldNumArgs == {Flt(1, FALSE), Flt(2, FALSE), Flt(1, TRUE)}
NewNumArgs == {Flt(1, FALSE), Flt(2, FALSE), Flt(2, TRUE)}

(***************************************************************************)
(* Errors.  OK is Go's nil error; Panic is a run-time fault (nil           *)
(* dereference) unwinding through the dispatcher.                          *)
(***************************************************************************)
E(msg) == [e |-> msg, arg |-> ""]
OK == E("nil")
Panic == E("panic: nil pointer dereference")
ErrBlockChainExist == E("BlockChain Exist")
ErrCreateBlockChain == E("Create BlockChain error")
ErrMethodNotImplemented == E("Method not implemented")
ErrNoEnoughUTXO == E("No enough money to create new chain")
ErrAddrNotInWhiteList == E("Address not in white list")
ErrPermissionDenied == E("Permission denied to call this contract")
ErrInvalidChainName == E("Invalid Chain name")
ErrNoLedgerInContext == E("no ledger object in context")
ErrNoUtxoMetaInContext == E("no utxoMeta in context")
ErrMissArg(name) == [e |-> "miss argument in contract", arg |-> name]
ErrArgType(name) == [e |-> "invalid arg type", arg |-> name]
ErrDecode(name) == [e |-> "mapstructure decode error", arg |-> name]
ErrArgInvalid(name) == [e |-> "argName invalid", arg |-> name]
ErrTransfer == E("validateUpdateReservedContract transfer invokeRequest failed")
ErrReservedFormat == E("you should maintain the format like this []")
ErrOldBlockSize == E("unexpected old block size")
ErrOldNewAccount == E("unexpected old newAccountResourceAmount")
ErrOldGasPrice == E("old_gas_price values are not equal to the current node")
ErrOldForbiddenConf ==
    E("old_forbidden_contract conf doesn't match current node forbidden_contract conf")
ErrOldForbiddenArgs ==
    E("old_forbidden_contract args doesn't match current node forbidden_contract args")
ErrOldReserved == E("old_reserved_contracts values are not equal to the current node")

\* the errors that report that old_X disagrees with the live value
MismatchErrors == {ErrOldBlockSize, ErrOldNewAccount, ErrOldGasPrice,
                   ErrOldForbiddenConf, ErrOldForbiddenArgs, ErrOldReserved}

(***************************************************************************)
(* Values carried by parameter-update descriptors.                         *)
(***************************************************************************)
GasMap(c, m, d, x) ==
    Map([cpu_rate |-> c, mem_rate |-> m, disk_rate |-> d, xfee_rate |-> x])

NewGasArgs == {GasMap(Flt(1, FALSE), Flt(1, FALSE), Flt(1, FALSE), Flt(1, FALSE)),
               GasMap(Flt(1, FALSE), Flt(1, FALSE), Flt(1, FALSE), Flt(2, FALSE))}
OldGasArgs == NewGasArgs
              \cup {GasMap(Flt(1, TRUE), Flt(1, FALSE), Flt(1, FALSE), Flt(1, FALSE))}

\* an invoke request as JSON: args is a set of <<key, value>> pairs
IRMap(mod, con, met, as) ==
    Map([module_name |-> mod, contract_name |-> con, method_name |-> met, args |-> as])

IRA == IRMap("wasm", "counter", "increase", {<<"key", "a">>})
IRB == IRMap("wasm", "counter", "increase", {<<"key", "b">>})
IRC == IRMap("native", "acl", "set", {})
IRNoModule == IRMap("", "counter", "increase", {})

NewForbiddenArgs == {IRA, IRB}
OldForbiddenArgs == {IRA, IRB, IRC}

\* the lists of up to MaxLen reserved contracts IRA, and two that differ from
\* them at their last index
NewReservedArgs == {Lst([i \in 1..n |-> IRA]) : n \in 0..MaxLen}
OldReservedArgs == NewReservedArgs \cup {Lst(<<IRC>>), Lst(<<IRA, IRC>>)}

(***************************************************************************)
(* StateMeta: the chain parameters with their getters and setters.         *)
(***************************************************************************)
GetMaxBlockSize(m) == m.maxBlockSize
UpdateMaxBlockSize(m, v) == [m EXCEPT !.maxBlockSize = v]
GetIrreversibleSlideWindow(m) == m.irreversibleSlideWindow
UpdateIrreversibleSlideWindow(m, v) == [m EXCEPT !.irreversibleSlideWindow = v]
GetNewAccountResourceAmount(m) == m.newAccountResourceAmount
UpdateNewAccountResourceAmount(m, v) == [m EXCEPT !.newAccountResourceAmount = v]
GetGasPrice(m) == m.gasPrice
UpdateGasPrice(m, v) == [m EXCEPT !.gasPrice = v]
GetForbiddenContract(m) == m.forbiddenContract
UpdateForbiddenContract(m, v) == [m EXCEPT !.forbiddenContract = v]
GetReservedContracts(m) == m.reservedContracts
UpdateReservedContracts(m, v) == [m EXCEPT !.reservedContracts = v]

\* ledger.InvokeRequest as decoded by mapstructure and converted to pb.InvokeRequest
\* (InvokeRequestFromJSON2Pb copies the names and turns each argument into bytes)
InvokeRequestFromJSON2Pb(v) ==
    [ModuleName |-> v.val.module_name, ContractName |-> v.val.contract_name,
     MethodName |-> v.val.method_name, Args |-> v.val.args]

\* ledger.GasPrice as decoded by mapstructure: every rate narrowed to int64
GasPriceFromMap(v) ==
    [CpuRate |-> Int64Of(v.val.cpu_rate), MemRate |-> Int64Of(v.val.mem_rate),
     DiskRate |-> Int64Of(v.val.disk_rate), XfeeRate |-> Int64Of(v.val.xfee_rate)]

VARIABLES
    bcName,       \* Kernel.bcName: the chain this kernel instance belongs to
    kernelConfig, \* Kernel.kernelConfig (read-only after Init)
    register,     \* Kernel.register: TRUE when a ChainRegister is wired
    context,      \* Kernel.context, as last set by SetContext
    meta,         \* the StateMeta of the chain
    fs,           \* the side-chain directories under datapath
    trash,        \* the entries of datapath/../trash
    loaded,       \* the chains the ChainRegister has loaded
    ledger,       \* the confirmed transactions of the chain's ledger
    cache,        \* the state-model read cache: a set of <<bucket, version>>
    handles,      \* the ledger and state-engine handles that are open
    last,         \* the latest invocation: entry point, descriptor, environment
    pre,          \* the state the latest invocation started from
    err,          \* what the latest invocation returned
    peer,         \* what the same descriptor gave on another node of the chain
    stream,       \* a p2p Stream: its peer, isAuth and the addresses received
    authRes,      \* the latest GET_AUTHENTICATION request and its response
    pc, call, mutex, kctx, seen  \* threads and kernel instances of SpecConc

kvars == <<bcName, kernelConfig, register>>
wvars == <<meta, fs, trash, loaded, ledger, cache, handles>>
cvars == <<pc, call, mutex, kctx, seen>>
avars == <<stream, authRes>>
vars == <<bcName, kernelConfig, register, context, meta, fs, trash, loaded,
          ledger, cache, handles, last, pre, err, peer, stream, authRes, pc,
          call, mutex, kctx, seen>>

(***************************************************************************)
(* What a handler returns: its error and the state it leaves.              *)
(***************************************************************************)
Ret(e) == [err |-> e, meta |-> meta, fs |-> fs, trash |-> trash,
           loaded |-> loaded, ledger |-> ledger, cache |-> cache,
           handles |-> handles]

NoContext == [set |-> FALSE, height |-> 0]
Ctx(h) == [set |-> TRUE, height |-> h]
Contexts == {Ctx(1)}

(***************************************************************************)
(* Argument validators.                                                    *)
(***************************************************************************)
\* the loop of validateUpdateMaxBlockSize and its two siblings over names
validateFloatArgs(desc, names) ==
    IF desc.args[names[1]].kind = "nil" THEN ErrMissArg(names[1])
    ELSE IF desc.args[names[1]].kind # "float64" THEN ErrArgType(names[1])
    ELSE IF desc.args[names[2]].kind = "nil" THEN ErrMissArg(names[2])
    ELSE IF desc.args[names[2]].kind # "float64" THEN ErrArgType(names[2])
    ELSE OK

validateUpdateMaxBlockSize(desc) ==
    validateFloatArgs(desc, <<"new_block_size", "old_block_size">>)

validateUpdateIrreversibleSlideWindow(desc) ==
    validateFloatArgs(desc, <<"new_irreversible_slide_window",
                              "old_irreversible_slide_window">>)

validateUpdateNewAccountResourceAmount(desc) ==
    validateFloatArgs(desc, <<"new_new_account_resource_amount",
                              "old_new_account_resource_amount">>)

\* returns [err, val]
validateUpdateGasPrice(desc, name) ==
    IF desc.args[name].kind = "nil" THEN [err |-> ErrMissArg(name), val |-> Nil]
    ELSE IF desc.args[name].kind # "map" THEN [err |-> ErrDecode(name), val |-> Nil]
    ELSE [err |-> OK, val |-> GasPriceFromMap(desc.args[name])]

validateUpdateForbiddenContract(desc, name) ==
    IF desc.args[name].kind = "nil" THEN [err |-> ErrMissArg(name), val |-> Nil]
    ELSE IF desc.args[name].kind # "map" THEN [err |-> ErrDecode(name), val |-> Nil]
    ELSE [err |-> OK, val |-> InvokeRequestFromJSON2Pb(desc.args[name])]

\* one pass of the loop of validateUpdateReservedContract over argName
validateReservedArg(desc, argName) ==
    IF desc.args[argName].kind = "nil" THEN ErrMissArg(argName)
    ELSE IF desc.args[argName].kind # "list" THEN ErrArgInvalid(argName)
    ELSE IF \E i \in DOMAIN desc.args[argName].val :
                desc.args[argName].val[i].kind # "map" THEN ErrTransfer
    ELSE IF \E i \in DOMAIN desc.args[argName].val :
                desc.args[argName].val[i].val.module_name = "" THEN ErrReservedFormat
    ELSE OK

\* a validator that examines only the list it is asked for
validateUpdateReservedContractNamedOnly(desc, name) ==
    IF validateReservedArg(desc, name) # OK
    THEN [err |-> validateReservedArg(desc, name), val |-> <<>>]
    ELSE [err |-> OK,
          val |-> [i \in DOMAIN desc.args[name].val |->
                      InvokeRequestFromJSON2Pb(desc.args[name].val[i])]]

validateUpdateReservedContract(desc, name) ==
    IF validateReservedArg(desc, "old_reserved_contracts") # OK
    THEN [err |-> validateReservedArg(desc, "old_reserved_contracts"), val |-> <<>>]
    ELSE IF validateReservedArg(desc, "new_reserved_contracts") # OK
    THEN [err |-> validateReservedArg(desc, "new_reserved_contracts"), val |-> <<>>]
    ELSE [err |-> OK,
          val |-> [i \in DOMAIN desc.args[name].val |->
                      InvokeRequestFromJSON2Pb(desc.args[name].val[i])]]

(***************************************************************************)
(* Parameter updates: forward handlers and their rollbacks.                *)
(***************************************************************************)
Min(a, b) == IF a < b THEN a ELSE b

\* module, contract, method or number of arguments differ
InvokeConfDiffers(old, orig) ==
    \/ orig.ModuleName # old.ModuleName
    \/ orig.ContractName # old.ContractName
    \/ orig.MethodName # old.MethodName
    \/ Cardinality(orig.Args) # Cardinality(old.Args)

\* some argument of old is absent from orig or has another value there
InvokeArgsDiffer(old, orig) ==
    \E kv \in old.Args : kv \notin orig.Args

\* a forward handler that checks old_block_size and then keeps the live value
runUpdateMaxBlockSizeKeepsLive(desc) ==
    IF ~context.set THEN Ret(ErrNoLedgerInContext)
    ELSE IF validateUpdateMaxBlockSize(desc) # OK
    THEN Ret(validateUpdateMaxBlockSize(desc))
    ELSE IF Int64Of(desc.args.old_block_size) # GetMaxBlockSize(meta)
    THEN Ret(ErrOldBlockSize)
    ELSE Ret(OK)

\* a forward handler that writes new_block_size over a live value that equals
\* old_block_size, and old_block_size over any other
runUpdateMaxBlockSizeToggles(desc) ==
    IF ~context.set THEN Ret(ErrNoLedgerInContext)
    ELSE IF validateUpdateMaxBlockSize(desc) # OK
    THEN Ret(validateUpdateMaxBlockSize(desc))
    ELSE IF Int64Of(desc.args.old_block_size) # GetMaxBlockSize(meta)
    THEN [Ret(OK) EXCEPT
             !.meta = UpdateMaxBlockSize(meta, Int64Of(desc.args.old_block_size))]
    ELSE [Ret(OK) EXCEPT
             !.meta = UpdateMaxBlockSize(meta, Int64Of(desc.args.new_block_size))]

runUpdateMaxBlockSize(desc) ==
    IF ~context.set THEN Ret(ErrNoLedgerInContext)
    ELSE IF validateUpdateMaxBlockSize(desc) # OK
    THEN Ret(validateUpdateMaxBlockSize(desc))
    ELSE LET newBlockSize == Int64Of(desc.args.new_block_size)
             oldBlockSize == Int64Of(desc.args.old_block_size)
             curMaxBlockSize == GetMaxBlockSize(meta)
         IN  IF oldBlockSize # curMaxBlockSize THEN Ret(ErrOldBlockSize)
             ELSE [Ret(OK) EXCEPT !.meta = UpdateMaxBlockSize(meta, newBlockSize)]

rollbackUpdateMaxBlockSize(desc) ==
    IF ~context.set THEN Ret(ErrNoLedgerInContext)
    ELSE IF validateUpdateMaxBlockSize(desc) # OK
    THEN Ret(validateUpdateMaxBlockSize(desc))
    ELSE LET oldBlockSize == Int64Of(desc.args.old_block_size)
         IN  [Ret(OK) EXCEPT !.meta = UpdateMaxBlockSize(meta, oldBlockSize)]

runUpdateIrreversibleSlideWindow(desc) ==
    IF ~context.set THEN Ret(ErrNoLedgerInContext)
    ELSE IF validateUpdateIrreversibleSlideWindow(desc) # OK
    THEN Ret(validateUpdateIrreversibleSlideWindow(desc))
    ELSE LET new == Int64Of(desc.args.new_irreversible_slide_window)
             old == Int64Of(desc.args.old_irreversible_slide_window)
             cur == GetIrreversibleSlideWindow(meta)
         IN  IF old # cur THEN Ret(ErrOldBlockSize)
             ELSE [Ret(OK) EXCEPT !.meta = UpdateIrreversibleSlideWindow(meta, new)]

rollbackUpdateIrreversibleSlideWindow(desc) ==
    IF ~context.set THEN Ret(ErrNoLedgerInContext)
    ELSE IF validateUpdateIrreversibleSlideWindow(desc) # OK
    THEN Ret(validateUpdateIrreversibleSlideWindow(desc))
    ELSE LET old == Int64Of(desc.args.old_irreversible_slide_window)
         IN  [Ret(OK) EXCEPT !.meta = UpdateIrreversibleSlideWindow(meta, old)]

\* the mismatch error is built and dropped (line 865): the write always follows
runUpdateNewAccountResourceAmount(desc) ==
    IF ~context.set THEN Ret(ErrNoLedgerInContext)
    ELSE IF validateUpdateNewAccountResourceAmount(desc) # OK
    THEN Ret(validateUpdateNewAccountResourceAmount(desc))
    ELSE LET new == Int64Of(desc.args.new_new_account_resource_amount)
         IN  [Ret(OK) EXCEPT !.meta = UpdateNewAccountResourceAmount(meta, new)]

rollbackUpdateNewAccountResourceAmount(desc) ==
    IF ~context.set THEN Ret(ErrNoLedgerInContext)
    ELSE IF validateUpdateNewAccountResourceAmount(desc) # OK
    THEN Ret(validateUpdateNewAccountResourceAmount(desc))
    ELSE LET old == Int64Of(desc.args.old_new_account_resource_amount)
         IN  [Ret(OK) EXCEPT !.meta = UpdateNewAccountResourceAmount(meta, old)]

runUpdateForbiddenContract(desc) ==
    IF ~context.set THEN Ret(ErrNoLedgerInContext)
    ELSE LET oldParams == validateUpdateForbiddenContract(desc, "old_forbidden_contract")
             original == GetForbiddenContract(meta)
             params == validateUpdateForbiddenContract(desc, "new_forbidden_contract")
         IN  IF oldParams.err # OK THEN Ret(oldParams.err)
             ELSE IF InvokeConfDiffers(oldParams.val, original)
             THEN Ret(ErrOldForbiddenConf)
             ELSE IF InvokeArgsDiffer(oldParams.val, original)
             THEN Ret(ErrOldForbiddenArgs)
             ELSE IF params.err # OK THEN Ret(params.err)
             ELSE [Ret(OK) EXCEPT !.meta = UpdateForbiddenContract(meta, params.val)]

rollbackUpdateForbiddenContract(desc) ==
    IF ~context.set THEN Ret(ErrNoLedgerInContext)
    ELSE LET params == validateUpdateForbiddenContract(desc, "old_forbidden_contract")
         IN  IF params.err # OK THEN Ret(params.err)
             ELSE [Ret(OK) EXCEPT !.meta = UpdateForbiddenContract(meta, params.val)]

\* the nested loops compare only the indexes both lists have (i = j)
runUpdateReservedContract(desc) ==
    IF ~context.set THEN Ret(ErrNoLedgerInContext)
    ELSE LET oldParams == validateUpdateReservedContract(desc, "old_reserved_contracts")
             original == GetReservedContracts(meta)
             params == validateUpdateReservedContract(desc, "new_reserved_contracts")
         IN  IF oldParams.err # OK THEN Ret(oldParams.err)
             ELSE IF \E i \in 1..Min(Len(oldParams.val), Len(original)) :
                        \/ InvokeConfDiffers(oldParams.val[i], original[i])
                        \/ InvokeArgsDiffer(oldParams.val[i], original[i])
             THEN Ret(ErrOldReserved)
             ELSE IF params.err # OK THEN Ret(params.err)
             ELSE [Ret(OK) EXCEPT !.meta = UpdateReservedContracts(meta, params.val)]

rollbackUpdateReservedContract(desc) ==
    IF ~context.set THEN Ret(ErrNoLedgerInContext)
    ELSE LET params == validateUpdateReservedContract(desc, "old_reserved_contracts")
         IN  IF params.err # OK THEN Ret(params.err)
             ELSE [Ret(OK) EXCEPT !.meta = UpdateReservedContracts(meta, params.val)]

\* a gas price update that also resets the block size
runUpdateGasPriceResetsBlockSize(desc) ==
    IF ~context.set THEN Ret(ErrNoUtxoMetaInContext)
    ELSE LET oldParams == validateUpdateGasPrice(desc, "old_gas_price")
             newGasPrice == validateUpdateGasPrice(desc, "new_gas_price")
         IN  IF oldParams.err # OK THEN Ret(oldParams.err)
             ELSE IF newGasPrice.err # OK THEN Ret(newGasPrice.err)
             ELSE [Ret(OK) EXCEPT
                      !.meta = UpdateMaxBlockSize(UpdateGasPrice(meta, newGasPrice.val),
                                                  GetMaxBlockSize(meta) + 1)]

runUpdateGasPrice(desc) ==
    IF ~context.set THEN Ret(ErrNoUtxoMetaInContext)
    ELSE LET oldParams == validateUpdateGasPrice(desc, "old_gas_price")
             originalGasPrice == GetGasPrice(meta)
             newGasPrice == validateUpdateGasPrice(desc, "new_gas_price")
         IN  IF oldParams.err # OK THEN Ret(oldParams.err)
             ELSE IF \/ oldParams.val.CpuRate # originalGasPrice.CpuRate
                     \/ oldParams.val.MemRate # originalGasPrice.MemRate
                     \/ oldParams.val.DiskRate # originalGasPrice.DiskRate
                     \/ oldParams.val.XfeeRate # originalGasPrice.XfeeRate
             THEN Ret(ErrOldGasPrice)
             ELSE IF newGasPrice.err # OK THEN Ret(newGasPrice.err)
             ELSE [Ret(OK) EXCEPT !.meta = UpdateGasPrice(meta, newGasPrice.val)]

\* a rollback that, like the forward handler, writes only over an expected value
rollbackUpdateGasPriceGuarded(desc) ==
    IF ~context.set THEN Ret(ErrNoUtxoMetaInContext)
    ELSE LET oldParams == validateUpdateGasPrice(desc, "old_gas_price")
             newParams == validateUpdateGasPrice(desc, "new_gas_price")
         IN  IF oldParams.err # OK THEN Ret(oldParams.err)
             ELSE IF newParams.err = OK /\ newParams.val # GetGasPrice(meta)
             THEN Ret(ErrOldGasPrice)
             ELSE [Ret(OK) EXCEPT !.meta = UpdateGasPrice(meta, oldParams.val)]

rollbackUpdateGasPrice(desc) ==
    IF ~context.set THEN Ret(ErrNoUtxoMetaInContext)
    ELSE LET oldParams == validateUpdateGasPrice(desc, "old_gas_price")
         IN  IF oldParams.err # OK THEN Ret(oldParams.err)
             ELSE [Ret(OK) EXCEPT !.meta = UpdateGasPrice(meta, oldParams.val)]

(***************************************************************************)
(* The filesystem under datapath.  fs maps a chain name to what its        *)
(* directory datapath/<name> holds; the name "" is datapath itself.        *)
(*   none       no such directory                                          *)
(*   dir        the directory, empty                                       *)
(*   genesis    the genesis file written                                   *)
(*   ledger     a ledger opened over it, no root block confirmed           *)
(*   confirmed  the root block confirmed, the state not replayed           *)
(*   chain      a fully initialized chain                                  *)
(***************************************************************************)
DirNames == {"", "xuper", "side1"}

PathExists(f, name) == f[name] # "none"

MkdirAll(f, name) ==
    [n \in DOMAIN f |-> IF n = name \/ (n = "" /\ f[n] = "none") THEN "dir" ELSE f[n]]

RemoveAll(f, name) ==
    [n \in DOMAIN f |-> IF n = name \/ name = "" THEN "none" ELSE f[n]]

\* the genesis documents a descriptor may carry in its data argument
GenesisDocs == {"genesis", "{}"}
\* json.Unmarshal of the data into a ledger.RootConfig succeeds
ParsesAsRootConfig(data) == data \in GenesisDocs

GetKVEngineType(data) == IF ParsesAsRootConfig(data) THEN OK ELSE E("json: syntax error")
GetCryptoType(data) == IF ParsesAsRootConfig(data) THEN OK ELSE E("json: syntax error")
initPermissionModel(data) ==
    IF ParsesAsRootConfig(data) THEN OK ELSE E("json: syntax error")

\* the handles CreateBlockChain opens: the ledger of the new chain (NewLedger)
\* and its state engine (NewUtxoVM)
LedgerHandle(name) == <<name, "ledger">>
UtxoHandle(name) == <<name, "utxovm">>
Open(hs, h) == hs \cup {h}
\* the deferred Close calls, run when CreateBlockChain returns
Close(hs, h) == hs \ {h}

\* the steps of CreateBlockChain at which a collaborator (the filesystem, the
\* ledger, the state engine) may fail
CreateFailures == {"none", "mkdir", "write", "NewLedger", "GenerateRootTx",
                   "FormatRootBlock", "ConfirmBlock", "NewUtxoVM", "Play"}

CreateBlockChain(name, data, env) ==
    IF bcName # "xuper" THEN Ret(ErrPermissionDenied)
    ELSE IF PathExists(fs, name) THEN Ret(ErrBlockChainExist)
    ELSE IF env.fail = "mkdir" THEN Ret(E("mkdir failed"))
    ELSE IF env.fail = "write"
    THEN [Ret(E("write file error")) EXCEPT !.fs = RemoveAll(MkdirAll(fs, name), name)]
    ELSE IF GetKVEngineType(data) # OK
    THEN [Ret(GetKVEngineType(data)) EXCEPT
             !.fs = [MkdirAll(fs, name) EXCEPT ![name] = "genesis"]]
    ELSE IF GetCryptoType(data) # OK
    THEN [Ret(GetCryptoType(data)) EXCEPT
             !.fs = [MkdirAll(fs, name) EXCEPT ![name] = "genesis"]]
    ELSE IF env.fail = "NewLedger"
    THEN [Ret(E("NewLedger error")) EXCEPT !.fs = RemoveAll(MkdirAll(fs, name), name)]
    ELSE IF env.fail = "GenerateRootTx"
    THEN [Ret(E("GenerateRootTx error")) EXCEPT
             !.fs = RemoveAll(MkdirAll(fs, name), name),
             !.handles = Open(handles, LedgerHandle(name))]
    ELSE IF env.fail = "FormatRootBlock"
    THEN [Ret(ErrCreateBlockChain) EXCEPT
             !.fs = RemoveAll(MkdirAll(fs, name), name),
             !.handles = Open(handles, LedgerHandle(name))]
    ELSE IF env.fail = "NewUtxoVM"
    THEN [Ret(E("NewUtxoVM error")) EXCEPT
             !.fs = RemoveAll(MkdirAll(fs, name), name),
             !.handles = Open(handles, LedgerHandle(name))]
    ELSE IF initPermissionModel(data) # OK
    THEN [Ret(initPermissionModel(data)) EXCEPT
             !.fs = [MkdirAll(fs, name) EXCEPT ![name] = "confirmed"],
             !.handles = Close(Close(Open(Open(handles, LedgerHandle(name)),
                                          UtxoHandle(name)),
                                     UtxoHandle(name)), LedgerHandle(name))]
    ELSE [Ret(OK) EXCEPT
             !.fs = [MkdirAll(fs, name) EXCEPT
                        ![name] = CASE env.fail = "ConfirmBlock" -> "ledger"
                                    [] env.fail = "Play" -> "confirmed"
                                    [] OTHER -> "chain"],
             !.handles = Close(Close(Open(Open(handles, LedgerHandle(name)),
                                          UtxoHandle(name)),
                                     UtxoHandle(name)), LedgerHandle(name))]

RemoveFailures == {"none", "mkdirTrash", "rename", "UnloadBlockChain"}

\* a removal that deletes the directory instead of moving it
RemoveBlockChainDataDeletes(name, env) ==
    IF bcName # "xuper" THEN Ret(ErrPermissionDenied)
    ELSE [Ret(OK) EXCEPT !.fs = RemoveAll(fs, name)]

\* a rename of datapath/<name> moves the directory and all it holds
RemoveBlockChainData(name, env) ==
    IF bcName # "xuper" THEN Ret(ErrPermissionDenied)
    ELSE IF ~trash.exists /\ env.fail = "mkdirTrash" THEN Ret(E("mkdir failed"))
    ELSE IF env.fail = "rename"
    THEN [Ret(E("rename failed")) EXCEPT !.trash = [trash EXCEPT !.exists = TRUE]]
    ELSE [Ret(OK) EXCEPT
             !.fs = RemoveAll(fs, name),
             !.trash = [exists |-> TRUE, names |-> trash.names \cup {name}]]

\* a validator that does not parse the genesis document
validateCreateBCUnparsed(desc) ==
    IF desc.args.name.kind = "nil" THEN E("block chain name is empty")
    ELSE IF desc.args.data.kind = "nil" THEN E("first block data is empty")
    ELSE IF desc.args.name.kind # "string" THEN E("the type of name should be string")
    ELSE IF desc.args.data.kind # "string" THEN E("the type of data should be string")
    ELSE OK

validateCreateBC(desc) ==
    IF desc.args.name.kind = "nil" THEN E("block chain name is empty")
    ELSE IF desc.args.data.kind = "nil" THEN E("first block data is empty")
    ELSE IF desc.args.name.kind # "string" THEN E("the type of name should be string")
    ELSE IF desc.args.data.kind # "string" THEN E("the type of data should be string")
    ELSE IF ~ParsesAsRootConfig(desc.args.data.val) THEN E("first block data error")
    ELSE OK

\* a create handler that charges nothing
runCreateBlockChainFree(desc, env) ==
    IF validateCreateBC(desc) # OK THEN Ret(validateCreateBC(desc))
    ELSE IF bcName # "xuper" THEN Ret(ErrPermissionDenied)
    ELSE IF ~desc.tx.fromAddrInList /\ ~kernelConfig.DisableCreateChainWhiteList
    THEN Ret(ErrAddrNotInWhiteList)
    ELSE IF ~context.set THEN Ret(Panic)
    ELSE LET r == CreateBlockChain(desc.args.name.val, desc.args.data.val, env)
         IN  IF r.err = ErrBlockChainExist THEN [r EXCEPT !.err = OK]
             ELSE IF r.err # OK THEN r
             ELSE IF register
             THEN IF env.fail = "RegisterBlockChain"
                  THEN [r EXCEPT !.err = E("RegisterBlockChain failed")]
                  ELSE [r EXCEPT !.loaded = loaded \cup {desc.args.name.val}]
             ELSE r

RegisterFailures == {"none", "RegisterBlockChain"}

runCreateBlockChain(desc, env) ==
    IF validateCreateBC(desc) # OK THEN Ret(validateCreateBC(desc))
    ELSE IF bcName # "xuper" THEN Ret(ErrPermissionDenied)
    ELSE IF ~desc.tx.fromAddrInList /\ ~kernelConfig.DisableCreateChainWhiteList
    THEN Ret(ErrAddrNotInWhiteList)
    ELSE IF ~context.set THEN Ret(Panic)
    ELSE IF ~ledger.noFee /\ desc.tx.investmentCmp < 0 THEN Ret(ErrNoEnoughUTXO)
    ELSE LET r == CreateBlockChain(desc.args.name.val, desc.args.data.val, env)
         IN  IF r.err = ErrBlockChainExist THEN [r EXCEPT !.err = OK]
             ELSE IF r.err # OK THEN r
             ELSE IF register
             THEN IF env.fail = "RegisterBlockChain"
                  THEN [r EXCEPT !.err = E("RegisterBlockChain failed")]
                  ELSE [r EXCEPT !.loaded = loaded \cup {desc.args.name.val}]
             ELSE r

rollbackCreateBlockChain(desc, env) ==
    IF validateCreateBC(desc) # OK THEN Ret(validateCreateBC(desc))
    ELSE IF ~PathExists(fs, desc.args.name.val) THEN Ret(OK)
    ELSE LET r == RemoveBlockChainData(desc.args.name.val, env)
         IN  IF r.err # OK THEN r
             ELSE IF register
             THEN IF env.fail = "UnloadBlockChain"
                  THEN [r EXCEPT !.err = E("UnloadBlockChain failed")]
                  ELSE [r EXCEPT !.loaded = loaded \ {desc.args.name.val}]
             ELSE r

StopFailures == {"none", "UnloadBlockChain"}

\* a stop handler without the whitelist gate
runStopBlockChainOpen(desc, env) ==
    IF ~kernelConfig.EnableStopChain THEN Ret(ErrPermissionDenied)
    ELSE IF desc.args.name.kind = "nil" THEN Ret(ErrInvalidChainName)
    ELSE IF desc.args.name.kind # "string" \/ desc.args.name.val = ""
    THEN Ret(ErrInvalidChainName)
    ELSE IF desc.args.name.val = "xuper" THEN Ret(ErrPermissionDenied)
    ELSE IF ~register THEN Ret(Panic)
    ELSE IF env.fail = "UnloadBlockChain" THEN Ret(OK)
    ELSE [Ret(OK) EXCEPT !.loaded = loaded \ {desc.args.name.val}]

\* a stop handler that does not look at EnableStopChain
runStopBlockChainAlways(desc, env) ==
    IF desc.args.name.kind = "nil" THEN Ret(ErrInvalidChainName)
    ELSE IF desc.args.name.kind # "string" \/ desc.args.name.val = ""
    THEN Ret(ErrInvalidChainName)
    ELSE IF desc.args.name.val = "xuper" THEN Ret(ErrPermissionDenied)
    ELSE IF ~desc.tx.fromAddrInList /\ ~kernelConfig.DisableCreateChainWhiteList
    THEN Ret(ErrAddrNotInWhiteList)
    ELSE IF ~register THEN Ret(Panic)
    ELSE IF env.fail = "UnloadBlockChain" THEN Ret(OK)
    ELSE [Ret(OK) EXCEPT !.loaded = loaded \ {desc.args.name.val}]

\* a failed unload is logged and reported as success (line 728); the register
\* is called without the nil test the other two handlers make
runStopBlockChain(desc, env) ==
    IF ~kernelConfig.EnableStopChain THEN Ret(ErrPermissionDenied)
    ELSE IF desc.args.name.kind = "nil" THEN Ret(ErrInvalidChainName)
    ELSE IF desc.args.name.kind # "string" \/ desc.args.name.val = ""
    THEN Ret(ErrInvalidChainName)
    ELSE IF desc.args.name.val = "xuper" THEN Ret(ErrPermissionDenied)
    ELSE IF ~desc.tx.fromAddrInList /\ ~kernelConfig.DisableCreateChainWhiteList
    THEN Ret(ErrAddrNotInWhiteList)
    ELSE IF ~register THEN Ret(Panic)
    ELSE IF env.fail = "UnloadBlockChain" THEN Ret(OK)
    ELSE [Ret(OK) EXCEPT !.loaded = loaded \ {desc.args.name.val}]

\* a stop rollback that loads the chain again
rollbackStopBlockChainReloads(desc, env) ==
    IF ~kernelConfig.EnableStopChain THEN Ret(ErrPermissionDenied)
    ELSE IF desc.args.name.kind = "nil" THEN Ret(ErrInvalidChainName)
    ELSE IF desc.args.name.kind # "string" \/ desc.args.name.val = ""
    THEN Ret(ErrInvalidChainName)
    ELSE [Ret(OK) EXCEPT !.loaded = loaded \cup {desc.args.name.val}]

rollbackStopBlockChain(desc, env) ==
    IF ~kernelConfig.EnableStopChain THEN Ret(ErrPermissionDenied)
    ELSE IF desc.args.name.kind = "nil" THEN Ret(ErrInvalidChainName)
    ELSE IF desc.args.name.kind # "string" \/ desc.args.name.val = ""
    THEN Ret(ErrInvalidChainName)
    ELSE Ret(OK)

(***************************************************************************)
(* The historical-data rewrite.  Keys, signatures and digests are          *)
(* symbolic: a signature names its signer and the digest it was made over. *)
(***************************************************************************)
ModifyBlockAddr == "addrAuth"

\* client.CreateCryptoClientFromJSONPublicKey and GetEcdsaPublicKeyFromJsonStr
IsPublicKeyJSON(s) == s \in {"pkAuth", "pkOther"}
\* the address a public key derives
AddressOf(pk) == IF pk = "pkAuth" THEN "addrAuth" ELSE "addrOther"
VerifyAddressUsingPublicKey(addr, pk) == AddressOf(pk) = addr

\* hex.DecodeString succeeds
IsHex(s) == s # "zz"

\* txhash.MakeTxDigestHash: the digest covers the payload of the transaction
MakeTxDigestHash(txid, tx) ==
    [Txid |-> txid, Desc |-> tx.Desc, TxOutputsExt |-> tx.TxOutputsExt]

TxIds == {"T1"}
OrigTx == [Desc |-> "memo", TxOutputsExt |-> <<"b1", "b2">>, Marked |-> FALSE,
           EffectiveTxid |-> "", PublicKey |-> "", Sign |-> "", EffectiveHeight |-> 0]
\* the transaction with Desc and extended outputs cleared
Cleared(tx) == [tx EXCEPT !.Desc = "", !.TxOutputsExt = <<>>]

\* the signatures a descriptor may carry, hex-encoded; "garbage" is hex that
\* is no ASN.1 signature
SigOf(s) ==
    CASE s = "sigAuthCleared" ->
           [signer |-> "pkAuth", over |-> MakeTxDigestHash("T1", Cleared(OrigTx))]
      [] s = "sigAuthOriginal" ->
           [signer |-> "pkAuth", over |-> MakeTxDigestHash("T1", OrigTx)]
      [] OTHER ->
           [signer |-> "pkOther", over |-> MakeTxDigestHash("T1", Cleared(OrigTx))]

\* xcc.VerifyECDSA: (false, err) for what is no signature, else (valid, nil)
VerifyECDSA(pk, s, digest) ==
    IF s = "garbage"
    THEN [ok |-> FALSE, err |-> E("Failed unmashalling signature")]
    ELSE [ok |-> SigOf(s).signer = pk /\ SigOf(s).over = digest, err |-> OK]

\* xmodel.MakeVersion
MakeVersion(txid, i) == <<txid, i>>

\* a deletion that counts the extended outputs from one
CacheAfterDeleteFromOne(c, txid, tx) ==
    c \ {<<tx.TxOutputsExt[i], MakeVersion(txid, i)>> : i \in DOMAIN tx.TxOutputsExt}

\* the cache after BucketCacheDelete of every extended output of the transaction
CacheAfterDelete(c, txid, tx) ==
    c \ {<<tx.TxOutputsExt[i], MakeVersion(txid, i - 1)>> : i \in DOMAIN tx.TxOutputsExt}

\* ledger.QueryTransaction finds the transaction
TxExists(l, txid) == txid \in DOMAIN l.txs

\* ledger.UpdateBlockChainData: the stored transaction loses its Desc and
\* extended outputs and is tagged with the rewrite
LedgerUpdateBlockChainData(l, txid, ptxid, publicKey, sign, height) ==
    [l EXCEPT !.txs[txid] = [Desc |-> "", TxOutputsExt |-> <<>>, Marked |-> TRUE,
                             EffectiveTxid |-> ptxid, PublicKey |-> publicKey,
                             Sign |-> sign, EffectiveHeight |-> height]]

\* a validator that accepts any well-formed public key
validateUpdateBlockChainDataAnyKey(desc) ==
    IF \/ desc.args.txid.kind = "nil"
       \/ desc.args.publicKey.kind = "nil"
       \/ desc.args.sign.kind = "nil"
    THEN Ret(ErrMissArg("txid, publicKey, sign"))
    ELSE IF desc.args.txid.kind # "string" THEN Ret(ErrArgType("txid"))
    ELSE IF desc.args.publicKey.kind # "string" THEN Ret(ErrArgType("publicKey"))
    ELSE IF ~IsPublicKeyJSON(desc.args.publicKey.val) THEN Ret(E("invalid public key"))
    ELSE IF desc.args.sign.kind # "string" THEN Ret(ErrArgType("sign"))
    ELSE IF ~IsHex(desc.args.sign.val) THEN Ret(ErrArgType("sign byte"))
    ELSE IF ~IsHex(desc.args.txid.val) THEN Ret(E("validate updateBlockChainData bad txid"))
    ELSE IF ~TxExists(ledger, desc.args.txid.val) THEN Ret(E("Modified tx not exist"))
    ELSE LET txid == desc.args.txid.val
             tx == ledger.txs[txid]
             digestHash == MakeTxDigestHash(txid, Cleared(tx))
             v == VerifyECDSA(desc.args.publicKey.val, desc.args.sign.val, digestHash)
         IN  [Ret(IF v.err # OK \/ ~v.ok THEN v.err ELSE OK) EXCEPT
                 !.cache = CacheAfterDelete(cache, txid, tx)]

\* the transaction is looked up, its cache entries are deleted and only then
\* is the signature verified; a signature that parses and does not verify
\* gives (false, nil), and err (nil) is what line 658 returns
validateUpdateBlockChainData(desc) ==
    IF \/ desc.args.txid.kind = "nil"
       \/ desc.args.publicKey.kind = "nil"
       \/ desc.args.sign.kind = "nil"
    THEN Ret(ErrMissArg("txid, publicKey, sign"))
    ELSE IF desc.args.txid.kind # "string" THEN Ret(ErrArgType("txid"))
    ELSE IF desc.args.publicKey.kind # "string" THEN Ret(ErrArgType("publicKey"))
    ELSE IF ~IsPublicKeyJSON(desc.args.publicKey.val) THEN Ret(E("invalid public key"))
    ELSE IF ~VerifyAddressUsingPublicKey(kernelConfig.ModifyBlockAddr,
                                         desc.args.publicKey.val)
    THEN Ret(E("address and public key not match"))
    ELSE IF desc.args.sign.kind # "string" THEN Ret(ErrArgType("sign"))
    ELSE IF ~IsHex(desc.args.sign.val) THEN Ret(ErrArgType("sign byte"))
    ELSE IF ~IsHex(desc.args.txid.val) THEN Ret(E("validate updateBlockChainData bad txid"))
    ELSE IF ~TxExists(ledger, desc.args.txid.val) THEN Ret(E("Modified tx not exist"))
    ELSE LET txid == desc.args.txid.val
             tx == ledger.txs[txid]
             digestHash == MakeTxDigestHash(txid, Cleared(tx))
             v == VerifyECDSA(desc.args.publicKey.val, desc.args.sign.val, digestHash)
         IN  [Ret(IF v.err # OK \/ ~v.ok THEN v.err ELSE OK) EXCEPT
                 !.cache = CacheAfterDelete(cache, txid, tx)]

RewriteFailures == {"none", "UpdateBlockChainData"}

runUpdateBlockChainData(desc, env) ==
    IF ~context.set THEN Ret(ErrNoLedgerInContext)
    ELSE LET r == validateUpdateBlockChainData(desc)
         IN  IF r.err # OK THEN r
             ELSE IF env.fail = "UpdateBlockChainData"
             THEN [r EXCEPT !.err = E("ledger UpdateBlockChainData failed")]
             ELSE [r EXCEPT !.ledger = LedgerUpdateBlockChainData(ledger,
                          desc.args.txid.val, desc.tx.txid, desc.args.publicKey.val,
                          desc.args.sign.val, context.height)]

rollbackUpdateBlockChainData(desc) ==
    IF ~context.set THEN Ret(ErrNoLedgerInContext) ELSE Ret(OK)

(***************************************************************************)
(* The method tables and the dispatcher.                                   *)
(***************************************************************************)
ParamMethods == {"UpdateMaxBlockSize", "UpdateReservedContract",
                 "UpdateForbiddenContract", "UpdateNewAccountResourceAmount",
                 "UpdateIrreversibleSlideWindow", "UpdateGasPrice"}

\* the method names registered in the run table
runKernelFuncMap ==
    {"CreateBlockChain", "UpdateMaxBlockSize", "UpdateReservedContract",
     "UpdateForbiddenContract", "UpdateBlockChainData",
     "UpdateNewAccountResourceAmount", "UpdateIrreversibleSlideWindow",
     "UpdateGasPrice", "StopBlockChain"}

\* a rollback table that lacks the entry of the gas price
rollbackKernelFuncMapShort ==
    {"CreateBlockChain", "UpdateMaxBlockSize", "UpdateReservedContract",
     "UpdateForbiddenContract", "UpdateBlockChainData",
     "UpdateNewAccountResourceAmount", "UpdateIrreversibleSlideWindow",
     "StopBlockChain"}

\* the method names registered in the rollback table
rollbackKernelFuncMap ==
    {"CreateBlockChain", "UpdateMaxBlockSize", "UpdateReservedContract",
     "UpdateForbiddenContract", "UpdateBlockChainData",
     "UpdateNewAccountResourceAmount", "UpdateIrreversibleSlideWindow",
     "UpdateGasPrice", "StopBlockChain"}

rootKernelMap == {"CreateBlockChain", "StopBlockChain"}

\* a whitelist that also admits chain creation
GetVATWhiteListWithCreate ==
    {"UpdateMaxBlockSize", "UpdateReservedContract", "UpdateForbiddenContract",
     "UpdateNewAccountResourceAmount", "UpdateIrreversibleSlideWindow",
     "UpdateGasPrice", "UpdateBlockChainData", "CreateBlockChain"}

\* Kernel.GetVATWhiteList: the keys of the map it returns
GetVATWhiteList ==
    {"UpdateMaxBlockSize", "UpdateReservedContract", "UpdateForbiddenContract",
     "UpdateNewAccountResourceAmount", "UpdateIrreversibleSlideWindow",
     "UpdateGasPrice", "UpdateBlockChainData"}

\* the forward handler the run table binds to the method
runHandler(desc, env) ==
    CASE desc.method = "CreateBlockChain" -> runCreateBlockChain(desc, env)
      [] desc.method = "UpdateMaxBlockSize" -> runUpdateMaxBlockSize(desc)
      [] desc.method = "UpdateReservedContract" -> runUpdateReservedContract(desc)
      [] desc.method = "UpdateForbiddenContract" -> runUpdateForbiddenContract(desc)
      [] desc.method = "UpdateBlockChainData" -> runUpdateBlockChainData(desc, env)
      [] desc.method = "UpdateNewAccountResourceAmount" ->
             runUpdateNewAccountResourceAmount(desc)
      [] desc.method = "UpdateIrreversibleSlideWindow" ->
             runUpdateIrreversibleSlideWindow(desc)
      [] desc.method = "UpdateGasPrice" -> runUpdateGasPrice(desc)
      [] desc.method = "StopBlockChain" -> runStopBlockChain(desc, env)
      [] OTHER -> Ret(Panic)

\* the rollback handler the rollback table binds to the method
rollbackHandler(desc, env) ==
    CASE desc.method = "CreateBlockChain" -> rollbackCreateBlockChain(desc, env)
      [] desc.method = "UpdateMaxBlockSize" -> rollbackUpdateMaxBlockSize(desc)
      [] desc.method = "UpdateReservedContract" -> rollbackUpdateReservedContract(desc)
      [] desc.method = "UpdateForbiddenContract" -> rollbackUpdateForbiddenContract(desc)
      [] desc.method = "UpdateBlockChainData" -> rollbackUpdateBlockChainData(desc)
      [] desc.method = "UpdateNewAccountResourceAmount" ->
             rollbackUpdateNewAccountResourceAmount(desc)
      [] desc.method = "UpdateIrreversibleSlideWindow" ->
             rollbackUpdateIrreversibleSlideWindow(desc)
      [] desc.method = "UpdateGasPrice" -> rollbackUpdateGasPrice(desc)
      [] desc.method = "StopBlockChain" -> rollbackStopBlockChain(desc, env)
      [] OTHER -> Ret(Panic)

\* a dispatcher without the root gate
KernelRunUngated(desc, env) ==
    IF desc.method \notin runKernelFuncMap THEN Ret(ErrMethodNotImplemented)
    ELSE runHandler(desc, env)

\* Kernel.Run between mutex.Lock and the deferred mutex.Unlock
KernelRun(desc, env) ==
    IF desc.method \notin runKernelFuncMap THEN Ret(ErrMethodNotImplemented)
    ELSE IF desc.method \in rootKernelMap /\ bcName # "xuper"
    THEN Ret(ErrPermissionDenied)
    ELSE runHandler(desc, env)

\* a dispatcher whose gate comes first and admits, on a side chain, only the
\* methods registered as not root-only
KernelRollbackGateFirst(desc, env) ==
    IF bcName # "xuper" /\ desc.method \notin (rollbackKernelFuncMap \ rootKernelMap)
    THEN Ret(ErrPermissionDenied)
    ELSE IF desc.method \notin rollbackKernelFuncMap THEN Ret(ErrMethodNotImplemented)
    ELSE rollbackHandler(desc, env)

\* Kernel.Rollback between mutex.Lock and the deferred mutex.Unlock
KernelRollback(desc, env) ==
    IF desc.method \notin rollbackKernelFuncMap THEN Ret(ErrMethodNotImplemented)
    ELSE IF desc.method \in rootKernelMap /\ bcName # "xuper"
    THEN Ret(ErrPermissionDenied)
    ELSE rollbackHandler(desc, env)

(***************************************************************************)
(* Descriptors.                                                            *)
(***************************************************************************)
\* the carrying transaction: whether one of its source addresses is in
\* NewChainWhiteList, how its payment to the chain name compares with
\* MinNewChainAmount (investment.Cmp), and its txid
Txs == {[fromAddrInList |-> w, investmentCmp |-> c, txid |-> "K1"] :
           w \in BOOLEAN, c \in {-1, 0}}
AnyTx == [fromAddrInList |-> TRUE, investmentCmp |-> 0, txid |-> "K1"]

Desc(m, a) == [method |-> m, args |-> a, tx |-> AnyTx]

\* every pair of a well-formed old and new value, and two ill-formed descriptors
ArgPairs(oldName, newName, olds, news, good) ==
    {[n \in {oldName, newName} |-> IF n = oldName THEN o ELSE w] :
        o \in olds, w \in news}
    \cup {[n \in {oldName, newName} |-> IF n = oldName THEN Nil ELSE good],
          [n \in {oldName, newName} |-> IF n = oldName THEN good ELSE Str("1")]}

MaxBlockSizeDescs ==
    {Desc("UpdateMaxBlockSize", a) :
        a \in ArgPairs("old_block_size", "new_block_size",
                       OldNumArgs, NewNumArgs, Flt(1, FALSE))}
SlideWindowDescs ==
    {Desc("UpdateIrreversibleSlideWindow", a) :
        a \in ArgPairs("old_irreversible_slide_window", "new_irreversible_slide_window",
                       OldNumArgs, NewNumArgs, Flt(1, FALSE))}
NewAccountDescs ==
    {Desc("UpdateNewAccountResourceAmount", a) :
        a \in ArgPairs("old_new_account_resource_amount",
                       "new_new_account_resource_amount",
                       OldNumArgs, NewNumArgs, Flt(1, FALSE))}
GasPriceDescs ==
    {Desc("UpdateGasPrice", a) :
        a \in ArgPairs("old_gas_price", "new_gas_price", OldGasArgs, NewGasArgs,
                       GasMap(Flt(1, FALSE), Flt(1, FALSE), Flt(1, FALSE), Flt(1, FALSE)))}
ForbiddenDescs ==
    {Desc("UpdateForbiddenContract", a) :
        a \in ArgPairs("old_forbidden_contract", "new_forbidden_contract",
                       OldForbiddenArgs, NewForbiddenArgs, IRA)}
ReservedDescs ==
    {Desc("UpdateReservedContract", a) :
        a \in ArgPairs("old_reserved_contracts", "new_reserved_contracts",
                       OldReservedArgs, NewReservedArgs, Lst(<<IRA>>))
              \cup {[old_reserved_contracts |-> Lst(<<IRA>>),
                     new_reserved_contracts |-> Lst(<<IRNoModule>>)],
                    [old_reserved_contracts |-> Lst(<<Str("wasm")>>),
                     new_reserved_contracts |-> Lst(<<IRA>>)]}}
UnknownDescs == {Desc("NoSuchMethod", [name |-> Str("side1")])}

ParamDescs == MaxBlockSizeDescs \cup SlideWindowDescs \cup NewAccountDescs
              \cup GasPriceDescs \cup ForbiddenDescs \cup ReservedDescs
              \cup UnknownDescs

NoFailure == [fail |-> "none"]

\* chain lifecycle: the descriptors vary one argument at a time, and the
\* transaction under well-formed arguments
GoodCreateArgs == [name |-> Str("side1"), data |-> Str("genesis")]
GoodCreate == [method |-> "CreateBlockChain", args |-> GoodCreateArgs, tx |-> AnyTx]
\* the empty string as the name, with the smallest genesis document
EmptyNameCreate ==
    [GoodCreate EXCEPT !.args = [name |-> Str(""), data |-> Str("{}")]]
CreateDescs ==
    {[GoodCreate EXCEPT !.args.name = n] : n \in {Str(""), Nil, Flt(1, FALSE)}}
    \cup {[GoodCreate EXCEPT !.args.data = d] : d \in {Str("bad"), Nil, Flt(1, FALSE)}}
    \cup {[GoodCreate EXCEPT !.tx = t] : t \in Txs}
    \cup {EmptyNameCreate}
GoodStop == [method |-> "StopBlockChain", args |-> [name |-> Str("side1")], tx |-> AnyTx]
StopDescs ==
    {[GoodStop EXCEPT !.args.name = n] : n \in {Str("xuper"), Str(""), Nil, Flt(1, FALSE)}}
    \cup {[GoodStop EXCEPT !.tx = t] : t \in Txs}
ChainDescs == CreateDescs \cup StopDescs \cup UnknownDescs

\* the collaborator failures a call may meet, under well-formed arguments
ChainRunCalls ==
    {[desc |-> d, env |-> NoFailure] : d \in ChainDescs}
    \cup {[desc |-> GoodCreate, env |-> [fail |-> f]] :
             f \in CreateFailures \cup RegisterFailures}
    \cup {[desc |-> GoodStop, env |-> [fail |-> f]] : f \in StopFailures}
ChainRollbackCalls ==
    {[desc |-> d, env |-> NoFailure] : d \in ChainDescs}
    \cup {[desc |-> GoodCreate, env |-> [fail |-> f]] : f \in RemoveFailures}

\* CreateBlockChain called outside any descriptor, as the node does for a
\* chain of its own: the name and the bytes of the genesis document, which
\* nothing has validated
DirectCreateCalls ==
    {[name |-> "side1", data |-> d, env |-> NoFailure] : d \in {"genesis", "bad"}}

\* the historical-data rewrite
RewriteDescs ==
    {[method |-> "UpdateBlockChainData",
      args |-> [txid |-> t, publicKey |-> k, sign |-> g], tx |-> AnyTx] :
        t \in {Str("T1"), Str("T9"), Str("zz"), Nil, Flt(1, FALSE)},
        k \in {Str("pkAuth"), Str("pkOther"), Str("notjson"), Nil, Flt(1, FALSE)},
        g \in {Str("sigAuthCleared"), Str("sigAuthOriginal"), Str("sigOtherCleared"),
               Str("garbage"), Str("zz"), Nil, Flt(1, FALSE)}}
RewriteRunCalls ==
    {[desc |-> d, env |-> [fail |-> f]] : d \in RewriteDescs, f \in RewriteFailures}

(***************************************************************************)
(* Peer authentication: the handler of GET_AUTHENTICATION on a p2p stream. *)
(* A signature is the key that made it and the digest it is over; bytes    *)
(* that are no ASN.1 signature have asn1 FALSE.                            *)
(***************************************************************************)
\* config.DefautltAuthTimeout, in the seconds of the model's clock
DefautltAuthTimeout == 2
\* the values time.Now().Unix() may give during one call
Times == {10, 11}
\* the longest IdentityAuths.Auth of a request
MaxAuth == 2

\* strconv.ParseInt(s, 10, 64)
ParseInt(s) ==
    CASE s = "9" -> [ok |-> TRUE, val |-> 9]
      [] s = "10" -> [ok |-> TRUE, val |-> 10]
      [] s = "12" -> [ok |-> TRUE, val |-> 12]
      [] OTHER -> [ok |-> FALSE, val |-> 0]

\* math.Abs(float64(d))
Abs(d) == IF d < 0 THEN 0 - d ELSE d

\* hash.UsingSha256
UsingSha256(data) == [sha256 |-> data]

\* cryptoClient.VerifyECDSA(publicKey, sign, data): the ok result
VerifyECDSAOverData(pk, sign, data) ==
    IF ~sign.asn1 THEN FALSE
    ELSE sign.signer = pk /\ sign.over = data

\* the signature a peer holding key pk makes for its identity
SignIdentity(pk, peerID, addr, timestamp) ==
    [asn1 |-> TRUE, signer |-> pk, over |-> UsingSha256(peerID \o addr \o timestamp)]

\* bytes that are no signature
GarbageSign == [asn1 |-> FALSE, signer |-> "", over |-> UsingSha256("")]

\* one pass of the loop of handleGetAuthentication: the error it returns
\* with, OK when the entry is appended to addrs
checkIdentityAuth(s, v, tsNow) ==
    IF s.p # v.PeerID THEN E("handleGetAuthentication peerID inconsistency")
    ELSE IF ~IsPublicKeyJSON(v.Pubkey)
    THEN E("handleGetAuthentication Create crypto client error")
    ELSE IF ~VerifyAddressUsingPublicKey(v.Addr, v.Pubkey)
    THEN E("handleGetAuthentication address and public key not match")
    ELSE IF ~ParseInt(v.Timestamp).ok
    THEN E("handleGetAuthentication timestamp fmt error")
    ELSE IF Abs(tsNow - ParseInt(v.Timestamp).val) >= DefautltAuthTimeout
    THEN E("handleGetAuthentication timestamp expired")
    ELSE IF ~VerifyECDSAOverData(v.Pubkey, v.Sign,
                                 UsingSha256(v.PeerID \o v.Addr \o v.Timestamp))
    THEN E("handleGetAuthentication verify sign error")
    ELSE OK

\* the first entry of the request the loop returns at, 0 when it runs through
FirstRefused(s, auth, nows) ==
    IF \A i \in DOMAIN auth : checkIdentityAuth(s, auth[i], nows[i]) = OK THEN 0
    ELSE CHOOSE i \in DOMAIN auth :
             /\ checkIdentityAuth(s, auth[i], nows[i]) # OK
             /\ \A j \in 1..(i - 1) : checkIdentityAuth(s, auth[j], nows[j]) = OK

\* Stream.setReceivedAddr
setReceivedAddr(s, addrs) == [s EXCEPT !.receivedAddr = addrs]

\* errorHandleGetAuthenMsg
errRes == [type |-> "GET_AUTHENTICATION_RES", data |-> <<>>,
           errorType |-> "GET_AUTHENTICATION_ERROR"]

\* a handler that records the addresses verified before the entry it refuses
handleGetAuthenticationKeepsPrefix(s, msg, nows) ==
    IF ~msg.unmarshals
    THEN [stream |-> s, res |-> errRes, err |-> E("unmarshal msg error")]
    ELSE LET k == FirstRefused(s, msg.auth, nows)
         IN  IF k # 0
             THEN [stream |-> setReceivedAddr(s, [i \in 1..(k - 1) |-> msg.auth[i].Addr]),
                   res |-> errRes,
                   err |-> checkIdentityAuth(s, msg.auth[k], nows[k])]
             ELSE [stream |-> [setReceivedAddr(s, [i \in DOMAIN msg.auth |->
                                                     msg.auth[i].Addr])
                                  EXCEPT !.isAuth = TRUE],
                   res |-> [type |-> "GET_AUTHENTICATION_RES",
                            data |-> [i \in DOMAIN msg.auth |-> msg.auth[i].Addr],
                            errorType |-> "SUCCESS"],
                   err |-> OK]

\* P2PServerV2.handleGetAuthentication on stream s: the stream it leaves, the
\* response and the error
handleGetAuthentication(s, msg, nows) ==
    IF ~msg.unmarshals
    THEN [stream |-> s, res |-> errRes, err |-> E("unmarshal msg error")]
    ELSE LET k == FirstRefused(s, msg.auth, nows)
             addrs == [i \in DOMAIN msg.auth |-> msg.auth[i].Addr]
         IN  IF k # 0
             THEN [stream |-> s, res |-> errRes,
                   err |-> checkIdentityAuth(s, msg.auth[k], nows[k])]
             ELSE [stream |-> [setReceivedAddr(s, addrs) EXCEPT !.isAuth = TRUE],
                   res |-> [type |-> "GET_AUTHENTICATION_RES", data |-> addrs,
                            errorType |-> "SUCCESS"],
                   err |-> OK]

\* the stream of peer p1 as it is opened, and no request handled yet
NewStream == [p |-> "p1", isAuth |-> FALSE, receivedAddr |-> <<>>]
NoRequest == [op |-> "none"]

(***************************************************************************)
(* The operations of one kernel instance.                                  *)
(***************************************************************************)
Apply(r) ==
    /\ err' = r.err
    /\ meta' = r.meta
    /\ fs' = r.fs
    /\ trash' = r.trash
    /\ loaded' = r.loaded
    /\ ledger' = r.ledger
    /\ cache' = r.cache
    /\ handles' = r.handles

\* the state a handler starts from
World == [meta |-> meta, fs |-> fs, trash |-> trash, loaded |-> loaded,
          ledger |-> ledger, cache |-> cache, handles |-> handles,
          context |-> context]

NoCall == [op |-> "none"]
Idle == last = NoCall

\* the caller invokes Kernel.Run on a descriptor
Run(desc, env) ==
    /\ Idle
    /\ Apply(KernelRun(desc, env))
    /\ last' = [op |-> "Run", desc |-> desc, env |-> env]
    /\ pre' = World
    /\ UNCHANGED <<kvars, peer, avars, context, cvars>>

\* the caller invokes Kernel.Rollback on a descriptor
Rollback(desc, env) ==
    /\ Idle
    /\ Apply(KernelRollback(desc, env))
    /\ last' = [op |-> "Rollback", desc |-> desc, env |-> env]
    /\ pre' = World
    /\ UNCHANGED <<kvars, peer, avars, context, cvars>>

\* the caller invokes Kernel.CreateBlockChain itself
CallCreateBlockChain(name, data, env) ==
    /\ Idle
    /\ Apply(CreateBlockChain(name, data, env))
    /\ last' = [op |-> "CreateBlockChain",
                desc |-> [GoodCreate EXCEPT !.args = [name |-> Str(name),
                                                      data |-> Str(data)]],
                env |-> env]
    /\ pre' = World
    /\ UNCHANGED <<kvars, peer, avars, context, cvars>>

\* a reorganisation: the descriptor Run has just accepted is rolled back, and
\* pre keeps the state that Run started from
Reorg(env) ==
    /\ last.op = "Run"
    /\ err = OK
    /\ Apply(KernelRollback(last.desc, env))
    /\ last' = [op |-> "Reorg", desc |-> last.desc, env |-> env]
    /\ UNCHANGED <<kvars, peer, avars, context, pre, cvars>>

\* a replay: the descriptor Run has just been given is run again, in the same
\* environment, and pre keeps the state that the first Run started from
Replay ==
    /\ last.op = "Run"
    /\ Apply(KernelRun(last.desc, last.env))
    /\ last' = [op |-> "Replay", desc |-> last.desc, env |-> last.env]
    /\ UNCHANGED <<kvars, peer, avars, context, pre, cvars>>

\* the caller has consumed the result of the latest invocation
Return ==
    /\ ~Idle
    /\ last' = NoCall
    /\ pre' = World
    /\ err' = OK
    /\ UNCHANGED <<kvars, peer, avars, context, wvars, cvars>>

SetContext(c) ==
    /\ Idle
    /\ context' = c
    /\ pre' = [World EXCEPT !.context = c]
    /\ UNCHANGED <<kvars, peer, avars, wvars, last, err, cvars>>

(***************************************************************************)
(* Initial states.                                                         *)
(***************************************************************************)
Threads == {"t1", "t2"}
Kernels == {"xuper", "side1"}

InitMeta ==
    [maxBlockSize |-> 1, irreversibleSlideWindow |-> 1, newAccountResourceAmount |-> 1,
     gasPrice |-> [CpuRate |-> 1, MemRate |-> 1, DiskRate |-> 1, XfeeRate |-> 1],
     forbiddenContract |-> InvokeRequestFromJSON2Pb(IRA),
     reservedContracts |-> <<InvokeRequestFromJSON2Pb(IRA)>>]

InitWorld ==
    /\ context = NoContext
    /\ meta = InitMeta
    /\ fs = [n \in DirNames |-> IF n = "" THEN "dir"
                                ELSE IF n = "xuper" \/ n = bcName THEN "chain"
                                ELSE "none"]
    /\ trash = [exists |-> FALSE, names |-> {}]
    /\ loaded = {"xuper", bcName}
    /\ cache = {<<"b1", MakeVersion("T1", 0)>>, <<"b2", MakeVersion("T1", 1)>>,
                <<"b1", MakeVersion("T9", 0)>>}
    /\ handles = {}
    /\ peer = [set |-> FALSE]
    /\ stream = NewStream
    /\ authRes = NoRequest
    /\ last = [op |-> "none"]
    /\ pre = World
    /\ err = OK

InitConc ==
    /\ pc = [t \in Threads |-> "idle"]
    /\ call = [t \in Threads |-> [kernel |-> "xuper", op |-> "none"]]
    /\ mutex = [k \in Kernels |-> "free"]
    /\ kctx = [k \in Kernels |-> NoContext]
    /\ seen = [t \in Threads |-> [first |-> NoContext, last |-> NoContext]]

DefaultConfig == [EnableStopChain |-> TRUE, DisableCreateChainWhiteList |-> FALSE,
                  ModifyBlockAddr |-> ModifyBlockAddr]

\* the parameter updates, on the root chain
Init ==
    /\ bcName = "xuper"
    /\ kernelConfig = DefaultConfig
    /\ register = TRUE
    /\ ledger = [noFee |-> FALSE, txs |-> [t \in TxIds |-> OrigTx]]
    /\ InitWorld
    /\ InitConc

Next ==
    \/ \E d \in ParamDescs : Run(d, NoFailure)
    \/ \E d \in ParamDescs : Rollback(d, NoFailure)
    \/ Reorg(NoFailure)
    \/ Return
    \/ \E c \in Contexts : SetContext(c)

Spec == Init /\ [][Next]_vars

(***************************************************************************)
(* The chain lifecycle: kernels of the root chain and of a side chain,     *)
(* under the default configuration and under each single departure from it.*)
(***************************************************************************)
NodeSetups ==
    {[config |-> DefaultConfig, register |-> TRUE, noFee |-> FALSE],
     [config |-> [DefaultConfig EXCEPT !.EnableStopChain = FALSE],
      register |-> TRUE, noFee |-> FALSE],
     [config |-> [DefaultConfig EXCEPT !.DisableCreateChainWhiteList = TRUE],
      register |-> TRUE, noFee |-> FALSE],
     [config |-> DefaultConfig, register |-> FALSE, noFee |-> FALSE],
     [config |-> DefaultConfig, register |-> TRUE, noFee |-> TRUE]}

InitChain ==
    /\ bcName \in Kernels
    /\ \E n \in IF bcName = "xuper" THEN NodeSetups
                 ELSE {s \in NodeSetups : s.config = DefaultConfig /\ ~s.noFee} :
           /\ kernelConfig = n.config
           /\ register = n.register
           /\ ledger = [noFee |-> n.noFee, txs |-> [t \in TxIds |-> OrigTx]]
    /\ InitWorld
    /\ InitConc

NextChain ==
    \/ \E c \in ChainRunCalls : Run(c.desc, c.env)
    \/ \E c \in ChainRollbackCalls : Rollback(c.desc, c.env)
    \/ \E f \in RemoveFailures : Reorg([fail |-> f])
    \/ \E c \in DirectCreateCalls : CallCreateBlockChain(c.name, c.data, c.env)
    \/ Return
    \/ \E c \in Contexts : SetContext(c)

SpecChain == InitChain /\ [][NextChain]_vars

(***************************************************************************)
(* The historical-data rewrite, on either chain.                           *)
(***************************************************************************)
InitRewrite ==
    /\ bcName \in Kernels
    /\ kernelConfig = DefaultConfig
    /\ register = TRUE
    /\ ledger = [noFee |-> FALSE, txs |-> [t \in TxIds |-> OrigTx]]
    /\ InitWorld
    /\ InitConc

NextRewrite ==
    \/ \E c \in RewriteRunCalls : Run(c.desc, c.env)
    \/ \E d \in RewriteDescs : Rollback(d, NoFailure)
    \/ Reorg(NoFailure)
    \/ Return
    \/ \E c \in {Ctx(1), Ctx(2)} : SetContext(c)

SpecRewrite == InitRewrite /\ [][NextRewrite]_vars

(***************************************************************************)
(* Threads calling into two kernel instances.  An invocation of Run or     *)
(* Rollback is at                                                          *)
(*   lock     before mutex.Lock                                            *)
(*   lookup   holding the mutex, before the handler                        *)
(*   handler  in the handler, k.context read once (the nil test)           *)
(*   return   the handler done, k.context read again (getter and setter),  *)
(*            before the deferred mutex.Unlock                             *)
(***************************************************************************)
Invoke(t, k, op) ==
    /\ pc[t] = "idle"
    /\ pc' = [pc EXCEPT ![t] = "lock"]
    /\ call' = [call EXCEPT ![t] = [kernel |-> k, op |-> op]]
    /\ UNCHANGED <<kvars, peer, avars, wvars, context, last, pre, err, mutex, kctx, seen>>

\* a variant of Lock that does not wait for the mutex
LockNoWait(t) ==
    /\ pc[t] = "lock"
    /\ mutex' = [mutex EXCEPT ![call[t].kernel] = t]
    /\ pc' = [pc EXCEPT ![t] = "lookup"]
    /\ UNCHANGED <<kvars, peer, avars, wvars, context, last, pre, err, call, kctx, seen>>

\* k.mutex.Lock()
Lock(t) ==
    /\ pc[t] = "lock"
    /\ mutex[call[t].kernel] = "free"
    /\ mutex' = [mutex EXCEPT ![call[t].kernel] = t]
    /\ pc' = [pc EXCEPT ![t] = "lookup"]
    /\ UNCHANGED <<kvars, peer, avars, wvars, context, last, pre, err, call, kctx, seen>>

\* the table lookup, the root gate and the handler's test of k.context
Enter(t) ==
    /\ pc[t] = "lookup"
    /\ seen' = [seen EXCEPT ![t] = [first |-> kctx[call[t].kernel],
                                    last |-> kctx[call[t].kernel]]]
    /\ pc' = [pc EXCEPT ![t] = "handler"]
    /\ UNCHANGED <<kvars, peer, avars, wvars, context, last, pre, err, call, mutex, kctx>>

\* the rest of the handler, which reads k.context for the getter and the setter
Exec(t) ==
    /\ pc[t] = "handler"
    /\ seen' = [seen EXCEPT ![t].last = kctx[call[t].kernel]]
    /\ pc' = [pc EXCEPT ![t] = "return"]
    /\ UNCHANGED <<kvars, peer, avars, wvars, context, last, pre, err, call, mutex, kctx>>

\* the deferred k.mutex.Unlock()
Unlock(t) ==
    /\ pc[t] = "return"
    /\ mutex' = [mutex EXCEPT ![call[t].kernel] = "free"]
    /\ pc' = [pc EXCEPT ![t] = "idle"]
    /\ call' = [call EXCEPT ![t] = [kernel |-> "xuper", op |-> "none"]]
    /\ seen' = [seen EXCEPT ![t] = [first |-> NoContext, last |-> NoContext]]
    /\ UNCHANGED <<kvars, peer, avars, wvars, context, last, pre, err, kctx>>

\* Kernel.SetContext: one store to k.context, the mutex not taken
ThreadSetContext(t, k, c) ==
    /\ pc[t] = "idle"
    /\ kctx' = [kctx EXCEPT ![k] = c]
    /\ UNCHANGED <<kvars, peer, avars, wvars, context, last, pre, err, pc, call, mutex, seen>>

NextConc ==
    \/ \E t \in Threads, k \in Kernels, op \in {"Run", "Rollback"} : Invoke(t, k, op)
    \/ \E t \in Threads : Lock(t)
    \/ \E t \in Threads : Enter(t)
    \/ \E t \in Threads : Exec(t)
    \/ \E t \in Threads : Unlock(t)
    \/ \E t \in Threads, k \in Kernels, c \in {Ctx(1), Ctx(2)} :
           ThreadSetContext(t, k, c)

SpecConc == Init /\ [][NextConc]_vars

\* the scheduler runs a goroutine that is past mutex.Lock until it has returned
FairConc ==
    \A t \in Threads :
        WF_vars(Enter(t)) /\ WF_vars(Exec(t)) /\ WF_vars(Unlock(t))

SpecConcFair == SpecConc /\ FairConc

(***************************************************************************)
(* GET_AUTHENTICATION requests on one stream: identities that verify, with *)
(* timestamps on either side of the timeout, and identities with one       *)
(* defect each.                                                            *)
(***************************************************************************)
GoodAuth(pk, ts) ==
    [PeerID |-> "p1", Pubkey |-> pk, Addr |-> AddressOf(pk), Timestamp |-> ts,
     Sign |-> SignIdentity(pk, "p1", AddressOf(pk), ts)]

AuthEntries ==
    {GoodAuth("pkAuth", ts) : ts \in {"9", "10", "12", "1x"}}
    \cup {GoodAuth("pkOther", "10")}
    \cup {[GoodAuth("pkAuth", "10") EXCEPT
              !.PeerID = "p2",
              !.Sign = SignIdentity("pkAuth", "p2", "addrAuth", "10")],
          [GoodAuth("pkAuth", "10") EXCEPT !.Pubkey = "notjson"],
          [GoodAuth("pkAuth", "10") EXCEPT
              !.Addr = "addrOther",
              !.Sign = SignIdentity("pkAuth", "p1", "addrOther", "10")],
          [GoodAuth("pkAuth", "10") EXCEPT
              !.Sign = SignIdentity("pkOther", "p1", "addrAuth", "10")],
          [GoodAuth("pkAuth", "10") EXCEPT
              !.Sign = SignIdentity("pkAuth", "p1", "addrAuth", "12")],
          [GoodAuth("pkAuth", "10") EXCEPT !.Sign = GarbageSign]}

\* a message whose bytes proto.Unmarshal refuses, and the decoded requests
AuthMsgs ==
    {[unmarshals |-> FALSE, auth |-> <<>>]}
    \cup {[unmarshals |-> TRUE, auth |-> a] :
             a \in UNION {[1..n -> AuthEntries] : n \in 0..MaxAuth}}

\* the clock read once for each entry, never running backwards
ClockReadings(n) ==
    {t \in [1..n -> Times] : \A i \in 1..(n - 1) : t[i] <= t[i + 1]}
AuthCalls ==
    UNION {{[msg |-> m, nows |-> t] : t \in ClockReadings(Len(m.auth))} :
              m \in AuthMsgs}

\* the subscriber's callback, on the stream the message came by
GetAuthentication(msg, nows) ==
    /\ authRes = NoRequest
    /\ LET r == handleGetAuthentication(stream, msg, nows)
       IN  /\ stream' = r.stream
           /\ authRes' = [op |-> "handleGetAuthentication", msg |-> msg,
                          nows |-> nows, before |-> stream,
                          res |-> r.res, err |-> r.err]
    /\ UNCHANGED <<kvars, peer, wvars, context, last, pre, err, cvars>>

\* the response is sent and the stream waits for the next message
AuthReturn ==
    /\ authRes # NoRequest
    /\ authRes' = NoRequest
    /\ UNCHANGED <<kvars, peer, wvars, context, last, pre, err, cvars, stream>>

NextAuth ==
    \/ \E c \in AuthCalls : GetAuthentication(c.msg, c.nows)
    \/ AuthReturn

SpecAuth == Init /\ [][NextAuth]_vars

(***************************************************************************)
(* Runs and their rollbacks on a root-chain node that creates, stops and   *)
(* rewrites: the lifecycle and the rewrite descriptors together.           *)
(***************************************************************************)
\* rewrite descriptors with and without their arguments, by the authorizing
\* and by a foreign key, with a signature that verifies and one that is none
UndoRewriteDescs ==
    {d \in RewriteDescs :
        /\ d.args.txid \in {Str("T1"), Nil}
        /\ d.args.publicKey \in {Str("pkAuth"), Str("pkOther")}
        /\ d.args.sign \in {Str("sigAuthCleared"), Str("garbage")}}
UndoDescs == {GoodCreate} \cup StopDescs \cup UndoRewriteDescs
UndoRunCalls ==
    {[desc |-> d, env |-> NoFailure] : d \in UndoDescs}
    \cup {[desc |-> GoodStop, env |-> [fail |-> f]] : f \in StopFailures}

NextUndo ==
    \/ \E c \in UndoRunCalls : Run(c.desc, c.env)
    \/ \E d \in UndoDescs : Rollback(d, NoFailure)
    \/ Reorg(NoFailure)
    \/ Return
    \/ \E c \in Contexts : SetContext(c)

SpecUndo == InitRewrite /\ [][NextUndo]_vars

(***************************************************************************)
(* Replays: every method, each Run possibly followed by a second Run of    *)
(* the same descriptor.  The root-chain kernel is given the lifecycle      *)
(* descriptors and one parameter update, the side-chain kernel the         *)
(* parameter updates and the rewrite.                                      *)
(***************************************************************************)
ReplayRunCalls ==
    IF bcName = "xuper"
    THEN ChainRunCalls \cup {[desc |-> d, env |-> NoFailure] : d \in MaxBlockSizeDescs}
    ELSE {[desc |-> d, env |-> NoFailure] : d \in ParamDescs \cup UndoRewriteDescs}

NextReplay ==
    \/ \E c \in ReplayRunCalls : Run(c.desc, c.env)
    \/ Replay
    \/ Return
    \/ \E c \in Contexts : SetContext(c)

SpecReplay == InitChain /\ [][NextReplay]_vars

(***************************************************************************)
(* Two nodes of one chain run the same descriptor from the same on-chain   *)
(* state.  The first node runs; the model then turns to the second node,   *)
(* which Kernel.Init gave its own configuration, register and data path,   *)
(* keeps what the first node obtained in peer, and runs the descriptor     *)
(* there.                                                                  *)
(***************************************************************************)
NoPeer == [set |-> FALSE]

\* the data paths a node of the chain may have: with or without a directory
\* for the side chain
PeerPaths ==
    {[n \in DirNames |-> IF n = "" THEN "dir"
                          ELSE IF n = "xuper" \/ n = bcName THEN "chain"
                          ELSE d] : d \in {"none", "chain"}}

PeerDescs == ChainDescs \cup MaxBlockSizeDescs

\* the first node runs the descriptor
RunFirst(desc) ==
    /\ peer = NoPeer
    /\ Run(desc, NoFailure)

\* the second node: its configuration, register and data path are its own,
\* its StateMeta, ledger and context are what the first node started from
Handover(n, path) ==
    /\ peer = NoPeer
    /\ last.op = "Run"
    /\ n.noFee = pre.ledger.noFee
    /\ peer' = [set |-> TRUE, desc |-> last.desc, err |-> err, meta |-> meta,
                ledger |-> ledger]
    /\ kernelConfig' = n.config
    /\ register' = n.register
    /\ fs' = path
    /\ loaded' = {c \in DirNames \ {""} : path[c] = "chain"}
    /\ trash' = [exists |-> FALSE, names |-> {}]
    /\ handles' = {}
    /\ meta' = pre.meta
    /\ ledger' = pre.ledger
    /\ cache' = pre.cache
    /\ context' = pre.context
    /\ last' = NoCall
    /\ err' = OK
    /\ pre' = [meta |-> meta', fs |-> fs', trash |-> trash', loaded |-> loaded',
               ledger |-> ledger', cache |-> cache', handles |-> handles',
               context |-> context']
    /\ UNCHANGED <<bcName, cvars, avars>>

\* the second node runs the same descriptor
RunSecond ==
    /\ peer # NoPeer
    /\ Run(peer.desc, NoFailure)

NextPeers ==
    \/ \E d \in PeerDescs : RunFirst(d)
    \/ \E n \in NodeSetups, p \in PeerPaths : Handover(n, p)
    \/ RunSecond
    \/ \E c \in Contexts : peer = NoPeer /\ SetContext(c)

SpecPeers == InitChain /\ [][NextPeers]_vars

(***************************************************************************)
(* Parameter updates: what a descriptor says and what StateMeta holds.     *)
(***************************************************************************)
NumericMethods == {"UpdateMaxBlockSize", "UpdateIrreversibleSlideWindow",
                   "UpdateNewAccountResourceAmount"}

OldName(method) ==
    CASE method = "UpdateMaxBlockSize" -> "old_block_size"
      [] method = "UpdateIrreversibleSlideWindow" -> "old_irreversible_slide_window"
      [] method = "UpdateNewAccountResourceAmount" -> "old_new_account_resource_amount"
      [] method = "UpdateGasPrice" -> "old_gas_price"
      [] method = "UpdateForbiddenContract" -> "old_forbidden_contract"
      [] method = "UpdateReservedContract" -> "old_reserved_contracts"

NewName(method) ==
    CASE method = "UpdateMaxBlockSize" -> "new_block_size"
      [] method = "UpdateIrreversibleSlideWindow" -> "new_irreversible_slide_window"
      [] method = "UpdateNewAccountResourceAmount" -> "new_new_account_resource_amount"
      [] method = "UpdateGasPrice" -> "new_gas_price"
      [] method = "UpdateForbiddenContract" -> "new_forbidden_contract"
      [] method = "UpdateReservedContract" -> "new_reserved_contracts"

\* the live value of the parameter a method updates
LiveOf(m, method) ==
    CASE method = "UpdateMaxBlockSize" -> m.maxBlockSize
      [] method = "UpdateIrreversibleSlideWindow" -> m.irreversibleSlideWindow
      [] method = "UpdateNewAccountResourceAmount" -> m.newAccountResourceAmount
      [] method = "UpdateGasPrice" -> m.gasPrice
      [] method = "UpdateForbiddenContract" -> m.forbiddenContract
      [] method = "UpdateReservedContract" -> m.reservedContracts

\* an argument has the dynamic type its method expects and denotes a value of the
\* parameter: a number is a float64 that is an int64, a gas price is a map of
\* such numbers, a contract is a map, a reserved list is a list of maps that
\* name their module
ArgWellTyped(method, v) ==
    CASE method \in NumericMethods -> v.kind = "float64" /\ IsIntegral(v)
      [] method = "UpdateGasPrice" ->
             /\ v.kind = "map"
             /\ \A r \in DOMAIN v.val : v.val[r].kind = "float64" /\ IsIntegral(v.val[r])
      [] method = "UpdateForbiddenContract" -> v.kind = "map"
      [] method = "UpdateReservedContract" ->
             /\ v.kind = "list"
             /\ \A i \in DOMAIN v.val :
                    v.val[i].kind = "map" /\ v.val[i].val.module_name # ""

WellTyped(desc) ==
    /\ desc.method \in ParamMethods
    /\ ArgWellTyped(desc.method, desc.args[OldName(desc.method)])
    /\ ArgWellTyped(desc.method, desc.args[NewName(desc.method)])

\* the parameter value a well-typed argument denotes
ValueOf(method, v) ==
    CASE method \in NumericMethods -> v.whole
      [] method = "UpdateGasPrice" ->
             [CpuRate |-> v.val.cpu_rate.whole, MemRate |-> v.val.mem_rate.whole,
              DiskRate |-> v.val.disk_rate.whole, XfeeRate |-> v.val.xfee_rate.whole]
      [] method = "UpdateForbiddenContract" -> InvokeRequestFromJSON2Pb(v)
      [] method = "UpdateReservedContract" ->
             [i \in DOMAIN v.val |-> InvokeRequestFromJSON2Pb(v.val[i])]

OldValue(desc) == ValueOf(desc.method, desc.args[OldName(desc.method)])
NewValue(desc) == ValueOf(desc.method, desc.args[NewName(desc.method)])

\* the latest invocation was op on a well-typed parameter update, with a context
ParamCall(op) ==
    /\ last.op = op
    /\ WellTyped(last.desc)
    /\ pre.context.set

(***************************************************************************)
(* Properties of the parameter updates.                                    *)
(***************************************************************************)
\* C1: Run of a well-typed parameter update whose old_X differs from the live
\* value returns a state-mismatch error and leaves StateMeta as it was.
C1_MismatchRejected ==
    (ParamCall("Run") /\ OldValue(last.desc) # LiveOf(pre.meta, last.desc.method))
        => (err \in MismatchErrors /\ meta = pre.meta)

\* C2: once Run(d) of a parameter update has succeeded, Rollback(d) leaves
\* StateMeta equal to the state it had before Run(d).
C2_RollbackRestores ==
    (last.op = "Reorg" /\ last.desc.method \in ParamMethods) => meta = pre.meta

\* C3: Run of a well-typed parameter update whose old_X equals the live value
\* succeeds, and afterwards the live value of the parameter is new_X.  (The
\* framework has set the context; a numeric argument is well-typed when it
\* is an int64.)
C3_MatchApplied ==
    (ParamCall("Run") /\ OldValue(last.desc) = LiveOf(pre.meta, last.desc.method))
        => (err = OK /\ LiveOf(meta, last.desc.method) = NewValue(last.desc))

C3_Witness ==
    /\ ParamCall("Run")
    /\ last.desc.method = "UpdateMaxBlockSize"
    /\ OldValue(last.desc) = pre.meta.maxBlockSize
    /\ NewValue(last.desc) # pre.meta.maxBlockSize
    /\ meta.maxBlockSize = NewValue(last.desc)

\* C4: Rollback of a well-typed parameter update writes old_X whatever the live
\* value is, and no Rollback returns a state-mismatch error.
C4_RollbackWritesOld ==
    /\ ParamCall("Rollback")
           => (err = OK /\ LiveOf(meta, last.desc.method) = OldValue(last.desc))
    /\ last.op \in {"Rollback", "Reorg"} => err \notin MismatchErrors

C4_Witness ==
    /\ ParamCall("Rollback")
    /\ last.desc.method = "UpdateGasPrice"
    /\ OldValue(last.desc) # pre.meta.gasPrice
    /\ NewValue(last.desc) # pre.meta.gasPrice
    /\ meta.gasPrice = OldValue(last.desc)

\* C10: the run table and the rollback table hold the same method names, and
\* Rollback of a method that Run dispatches never returns MethodNotImplemented.
C10_TablesAgree ==
    /\ runKernelFuncMap = rollbackKernelFuncMap
    /\ (last.op \in {"Rollback", "Reorg"} /\ last.desc.method \in runKernelFuncMap)
           => err # ErrMethodNotImplemented

C10_Witness ==
    /\ last.op = "Reorg"
    /\ last.desc.method = "UpdateGasPrice"
    /\ err = OK
    /\ meta = pre.meta

(***************************************************************************)
(* Properties of the dispatcher's mutex.                                   *)
(***************************************************************************)
\* the thread holds the mutex of the kernel it called
InHandler(t) == pc[t] \in {"lookup", "handler", "return"}

\* C5: no two invocations hold the mutex of one kernel instance at a time, and
\* an invocation waits for the mutex only while an invocation on the same
\* instance holds it: invocations on different instances do not block one
\* another.
C5_MutualExclusion ==
    /\ \A t, u \in Threads :
           (t # u /\ InHandler(t) /\ InHandler(u)) => call[t].kernel # call[u].kernel
    /\ \A t \in Threads :
           (/\ pc[t] = "lock"
            /\ \A u \in Threads \ {t} : InHandler(u) => call[u].kernel # call[t].kernel)
               => ENABLED Lock(t)

C5_Witness ==
    /\ pc["t1"] = "handler" /\ call["t1"].kernel = "xuper"
    /\ pc["t2"] = "handler" /\ call["t2"].kernel = "side1"

\* C6: a handler uses one and the same context from its start to its end.
C6_OneContextPerHandler ==
    \A t \in Threads : pc[t] = "return" => seen[t].first = seen[t].last

(***************************************************************************)
(* Properties of the historical-data rewrite.                              *)
(***************************************************************************)
RewriteCall(op) ==
    /\ last.op = op
    /\ last.desc.method = "UpdateBlockChainData"
    /\ pre.context.set

\* the descriptor carries strings, its public key is the authorizing one and its
\* signature is one by that key over the digest of the target transaction
\* with Desc and extended outputs cleared
SignatureVerifies(desc, l) ==
    /\ \A a \in {"txid", "publicKey", "sign"} : desc.args[a].kind = "string"
    /\ IsPublicKeyJSON(desc.args.publicKey.val)
    /\ AddressOf(desc.args.publicKey.val) = kernelConfig.ModifyBlockAddr
    /\ desc.args.sign.val \notin {"zz", "garbage"}
    /\ desc.args.txid.val \in DOMAIN l.txs
    /\ SigOf(desc.args.sign.val) =
           [signer |-> desc.args.publicKey.val,
            over |-> [Txid |-> desc.args.txid.val, Desc |-> "", TxOutputsExt |-> <<>>]]

\* C7: Run of UpdateBlockChainData changes the ledger only if the signature
\* verifies; when it does not, Run returns an error and the ledger is as before.
C7_RewriteOnlyIfVerified ==
    (RewriteCall("Run") /\ ~SignatureVerifies(last.desc, pre.ledger))
        => (err # OK /\ ledger = pre.ledger)

\* C8: Run of UpdateBlockChainData whose descriptor carries its three arguments,
\* with a public key that derives an address other than ModifyBlockAddr, returns
\* "address and public key not match" and leaves the ledger unchanged.
C8_ForeignKeyRejected ==
    (/\ RewriteCall("Run")
     /\ \A a \in {"txid", "publicKey", "sign"} : last.desc.args[a].kind # "nil"
     /\ last.desc.args.txid.kind = "string"
     /\ last.desc.args.publicKey.kind = "string"
     /\ IsPublicKeyJSON(last.desc.args.publicKey.val)
     /\ AddressOf(last.desc.args.publicKey.val) # kernelConfig.ModifyBlockAddr)
        => (err = E("address and public key not match") /\ ledger = pre.ledger)

C8_Witness ==
    /\ RewriteCall("Run")
    /\ last.desc.args.txid = Str("T1")
    /\ last.desc.args.publicKey = Str("pkOther")
    /\ last.desc.args.sign = Str("sigOtherCleared")
    /\ last.env = NoFailure
    /\ err = E("address and public key not match")
    /\ ~ledger.txs["T1"].Marked

(***************************************************************************)
(* Properties of the root gate.                                            *)
(***************************************************************************)
\* C9: on a kernel whose chain is not "xuper", Run and Rollback of a root-only
\* method return PermissionDenied, and no directory is created, renamed or
\* removed and no chain is loaded or unloaded.
C9_RootOnly ==
    (/\ last.op \in {"Run", "Rollback"}
     /\ last.desc.method \in rootKernelMap
     /\ bcName # "xuper")
        => (/\ err = ErrPermissionDenied
            /\ fs = pre.fs /\ trash = pre.trash /\ loaded = pre.loaded)

C9_Witness ==
    /\ bcName = "side1"
    /\ last = [op |-> "Run", desc |-> GoodStop, env |-> NoFailure]
    /\ pre.context.set
    /\ err = ErrPermissionDenied
    /\ "side1" \in loaded

(***************************************************************************)
(* Properties of the dispatcher and of the chain lifecycle.                *)
(***************************************************************************)
\* an invocation of the entry point op on the chain lifecycle method m
ChainCall(op, m) == last.op = op /\ last.desc.method = m

\* the world but for what the latest invocation returned
Untouched ==
    /\ meta = pre.meta /\ ledger = pre.ledger /\ cache = pre.cache
    /\ fs = pre.fs /\ trash = pre.trash /\ loaded = pre.loaded

\* C11: Run and Rollback of a method that is not in the table return
\* MethodNotImplemented on the root chain and on a side chain alike (the lookup
\* precedes the root gate), and change neither the chain parameters, the
\* ledger, the directories, the trash nor the loaded chains.
C11_UnknownMethod ==
    /\ (last.op = "Run" /\ last.desc.method \notin runKernelFuncMap)
           => (err = ErrMethodNotImplemented /\ Untouched)
    /\ (last.op = "Rollback" /\ last.desc.method \notin rollbackKernelFuncMap)
           => (err = ErrMethodNotImplemented /\ Untouched)

C11_Witness ==
    /\ bcName = "side1"
    /\ last.op = "Rollback"
    /\ last.desc.method = "NoSuchMethod"
    /\ err = ErrMethodNotImplemented
    /\ fs["side1"] = "chain"

\* C12: after a CreateBlockChain that returns an error, through Run or called
\* directly, the directory of the chain does not exist unless it existed before
\* the call: every failing step after the directory was created removes it.
C12_FailedCreateRemovesDirectory ==
    (/\ last.op \in {"Run", "CreateBlockChain"}
     /\ last.desc.method = "CreateBlockChain"
     /\ last.desc.args.name.kind = "string"
     /\ ~PathExists(pre.fs, last.desc.args.name.val)
     /\ err # OK)
        => ~PathExists(fs, last.desc.args.name.val)

\* C13: when CreateBlockChain returns, through Run or called directly, every
\* ledger and state-engine handle it opened is closed: the open handles are
\* those that were open before the call.
C13_HandlesClosed ==
    (last.op \in {"Run", "CreateBlockChain"} /\ last.desc.method = "CreateBlockChain")
        => handles = pre.handles

\* C14: on the root chain, when Run of CreateBlockChain has succeeded and the
\* same descriptor is rolled back, the directory of the chain is gone and its
\* data is in the trash directory, moved there by the rename; with a register
\* wired, the register has unloaded the chain and Rollback returns no error.
\* The first part is stated for every rollback in which the trash directory
\* can be made and the rename succeeds, the second for a register that does
\* not fail.
C14_CreateThenRollback ==
    (ChainCall("Reorg", "CreateBlockChain") /\ bcName = "xuper")
        => /\ last.env.fail \in {"none", "UnloadBlockChain"}
                  => /\ ~PathExists(fs, last.desc.args.name.val)
                     /\ trash.exists
                     /\ last.desc.args.name.val \in trash.names
           /\ (last.env.fail = "none" /\ register)
                  => (err = OK /\ last.desc.args.name.val \notin loaded)

C14_Witness ==
    /\ bcName = "xuper"
    /\ register
    /\ last = [op |-> "Reorg", desc |-> GoodCreate, env |-> NoFailure]
    /\ ~PathExists(pre.fs, "side1")
    /\ "side1" \notin pre.trash.names
    /\ err = OK
    /\ ~PathExists(fs, "side1")
    /\ "side1" \in trash.names
    /\ "side1" \notin loaded

\* the descriptor passes every check its handler makes before the whitelist
ReachesWhiteList(desc) ==
    /\ bcName = "xuper"
    /\ \/ desc.method = "CreateBlockChain" /\ validateCreateBC(desc) = OK
       \/ /\ desc.method = "StopBlockChain"
          /\ kernelConfig.EnableStopChain
          /\ desc.args.name.kind = "string"
          /\ desc.args.name.val \notin {"", "xuper"}

\* C15: with DisableCreateChainWhiteList false, Run of CreateBlockChain or of
\* StopBlockChain whose transaction has no source address in NewChainWhiteList
\* returns an error, and no directory is created or moved, no handle opened and
\* no chain loaded or unloaded; the error is AddrNotInWhiteList whenever the
\* descriptor passes the checks that precede the gate.  With
\* DisableCreateChainWhiteList true no Run returns AddrNotInWhiteList.
C15_WhiteListGate ==
    /\ (/\ last.op = "Run"
        /\ last.desc.method \in {"CreateBlockChain", "StopBlockChain"}
        /\ ~last.desc.tx.fromAddrInList
        /\ ~kernelConfig.DisableCreateChainWhiteList)
           => /\ err # OK
              /\ fs = pre.fs /\ trash = pre.trash /\ handles = pre.handles
              /\ loaded = pre.loaded
              /\ ReachesWhiteList(last.desc) => err = ErrAddrNotInWhiteList
    /\ (last.op = "Run" /\ kernelConfig.DisableCreateChainWhiteList)
           => err # ErrAddrNotInWhiteList

C15_Witness ==
    /\ bcName = "xuper"
    /\ ~kernelConfig.DisableCreateChainWhiteList
    /\ ChainCall("Run", "StopBlockChain")
    /\ last.desc.args.name = Str("side1")
    /\ ~last.desc.tx.fromAddrInList
    /\ "side1" \in loaded
    /\ err = ErrAddrNotInWhiteList

\* the descriptor passes every check runCreateBlockChain makes before it reads
\* the fee setting of the ledger, and the context holds a ledger
ReachesFeeCheck(desc) ==
    /\ bcName = "xuper"
    /\ validateCreateBC(desc) = OK
    /\ desc.tx.fromAddrInList \/ kernelConfig.DisableCreateChainWhiteList
    /\ pre.context.set

\* C16: on a ledger that charges fees, Run of CreateBlockChain whose transaction
\* pays the chain name less than MinNewChainAmount never succeeds and creates
\* no directory; it returns NoEnoughUTXO whenever the descriptor reaches the
\* fee check.  On a ledger that disables fees no Run returns NoEnoughUTXO.
C16_MinimumInvestment ==
    /\ (/\ ChainCall("Run", "CreateBlockChain")
        /\ ~pre.ledger.noFee
        /\ last.desc.tx.investmentCmp < 0)
           => /\ err # OK
              /\ fs = pre.fs /\ trash = pre.trash /\ handles = pre.handles
              /\ loaded = pre.loaded
              /\ ReachesFeeCheck(last.desc) => err = ErrNoEnoughUTXO
    /\ (last.op = "Run" /\ pre.ledger.noFee) => err # ErrNoEnoughUTXO

C16_Witness ==
    /\ bcName = "xuper"
    /\ ~ledger.noFee
    /\ ChainCall("Run", "CreateBlockChain")
    /\ last.desc.args = GoodCreateArgs
    /\ last.desc.tx.fromAddrInList
    /\ last.desc.tx.investmentCmp < 0
    /\ pre.context.set
    /\ ~PathExists(fs, "side1")
    /\ err = ErrNoEnoughUTXO

\* C17: Run of CreateBlockChain whose data argument is missing, is no string or
\* does not parse as a RootConfig returns an error, and the directories, the
\* trash, the open handles and the loaded chains are as before; on the root
\* chain, with a string for the name, unparsable data returns "first block
\* data error".
C17_UnparsableGenesis ==
    (/\ ChainCall("Run", "CreateBlockChain")
     /\ ~(/\ last.desc.args.data.kind = "string"
          /\ ParsesAsRootConfig(last.desc.args.data.val)))
        => /\ err # OK
           /\ fs = pre.fs /\ trash = pre.trash /\ handles = pre.handles
           /\ loaded = pre.loaded
           /\ (/\ bcName = "xuper"
               /\ last.desc.args.name.kind = "string"
               /\ last.desc.args.data.kind = "string")
                  => err = E("first block data error")

C17_Witness ==
    /\ bcName = "xuper"
    /\ ChainCall("Run", "CreateBlockChain")
    /\ last.desc.args = [name |-> Str("side1"), data |-> Str("bad")]
    /\ pre.context.set
    /\ err = E("first block data error")
    /\ ~PathExists(fs, "side1")

C19_StopRefused ==
    ChainCall("Run", "StopBlockChain")
        => /\ (~kernelConfig.EnableStopChain \/ last.desc.args.name = Str("xuper"))
                  => (err = ErrPermissionDenied /\ loaded = pre.loaded)
           /\ (/\ bcName = "xuper"
               /\ kernelConfig.EnableStopChain
               /\ \/ last.desc.args.name.kind # "string"
                  \/ last.desc.args.name.val = "")
                  => (err = ErrInvalidChainName /\ loaded = pre.loaded)

C19_Witness ==
    /\ bcName = "xuper"
    /\ ~kernelConfig.EnableStopChain
    /\ register
    /\ last.op = "Run"
    /\ last.desc = GoodStop
    /\ "side1" \in loaded
    /\ err = ErrPermissionDenied

\* the latest invocation called the collaborator that its environment makes
\* fail: the descriptor passed every check before the call
RaisedError ==
    \/ /\ ChainCall("Run", "StopBlockChain")
       /\ last.env.fail = "UnloadBlockChain"
       /\ ReachesWhiteList(last.desc)
       /\ last.desc.tx.fromAddrInList \/ kernelConfig.DisableCreateChainWhiteList
       /\ register
    \/ /\ ChainCall("Run", "CreateBlockChain")
       /\ last.env.fail \in (CreateFailures \cup RegisterFailures) \ {"none"}
       /\ ReachesFeeCheck(last.desc)
       /\ pre.ledger.noFee \/ last.desc.tx.investmentCmp >= 0
       /\ ~PathExists(pre.fs, last.desc.args.name.val)
       /\ last.env.fail = "RegisterBlockChain" => register
    \/ /\ ChainCall("Rollback", "CreateBlockChain")
       /\ bcName = "xuper"
       /\ validateCreateBC(last.desc) = OK
       /\ PathExists(pre.fs, last.desc.args.name.val)
       /\ \/ last.env.fail = "mkdirTrash" /\ ~pre.trash.exists
          \/ last.env.fail = "rename"
          \/ last.env.fail = "UnloadBlockChain" /\ register

\* C20: Run and Rollback return an error whenever a collaborator they called
\* (the register, the filesystem, the ledger, the state engine) returned one;
\* the one error mapped to success is BlockChainExist.
C20_ErrorsPropagate ==
    RaisedError => err # OK

(***************************************************************************)
(* Properties of validation, replay and the rewrite.                       *)
(***************************************************************************)
\* the dynamic type a parameter update expects of its two arguments
ExpectedKind(method) ==
    CASE method \in NumericMethods -> "float64"
      [] method \in {"UpdateGasPrice", "UpdateForbiddenContract"} -> "map"
      [] method = "UpdateReservedContract" -> "list"

\* a parameter-update descriptor in which a required argument is missing or
\* has another dynamic type than the expected one
IllTyped(desc) ==
    /\ desc.method \in ParamMethods
    /\ \E n \in {OldName(desc.method), NewName(desc.method)} :
           desc.args[n].kind # ExpectedKind(desc.method)

\* C21: Run and Rollback of a parameter-update descriptor in which a required
\* argument is missing or has another dynamic type than the expected one
\* return an error and leave StateMeta, the ledger, the directories and the
\* loaded chains as they were.
C21_IllTypedRejected ==
    (last.op \in {"Run", "Rollback"} /\ IllTyped(last.desc))
        => /\ err # OK
           /\ meta = pre.meta /\ ledger = pre.ledger
           /\ fs = pre.fs /\ trash = pre.trash /\ loaded = pre.loaded

\* C22: Run of UpdateReservedContract on a well-typed descriptor succeeds only
\* if old_reserved_contracts equals the live list, in length and entry by
\* entry; an old list of another length returns the mismatch error.
C22_ReservedListCompared ==
    (ParamCall("Run") /\ last.desc.method = "UpdateReservedContract")
        => /\ err = OK => OldValue(last.desc) = pre.meta.reservedContracts
           /\ Len(OldValue(last.desc)) # Len(pre.meta.reservedContracts)
                  => (err = ErrOldReserved /\ meta = pre.meta)

\* the form ledger.UpdateBlockChainData leaves a transaction in
Rewritten(tx) == tx.Marked /\ tx.Desc = "" /\ tx.TxOutputsExt = <<>>

\* C23: after a successful Run of UpdateBlockChainData on the transaction T,
\* the ledger holds T in its rewritten form, and the read cache holds no
\* entry (bucket, version(T, i)) for the i-th extended output T had.
C23_RewriteVisible ==
    (RewriteCall("Run") /\ err = OK)
        => /\ Rewritten(ledger.txs[last.desc.args.txid.val])
           /\ \A tx \in {OrigTx, pre.ledger.txs[last.desc.args.txid.val]} :
                  \A i \in DOMAIN tx.TxOutputsExt :
                      <<tx.TxOutputsExt[i], MakeVersion(last.desc.args.txid.val, i - 1)>>
                          \notin cache

C23_Witness ==
    /\ RewriteCall("Run")
    /\ err = OK
    /\ last.desc.args.txid = Str("T1")
    /\ last.desc.args.sign = Str("sigAuthCleared")
    /\ ~pre.ledger.txs["T1"].Marked
    /\ <<"b1", MakeVersion("T1", 0)>> \in pre.cache
    /\ <<"b2", MakeVersion("T1", 1)>> \in pre.cache
    /\ cache = {<<"b1", MakeVersion("T9", 0)>>}
    /\ Rewritten(ledger.txs["T1"])

\* C24: a Rollback of StopBlockChain or of UpdateBlockChainData, of any
\* descriptor in any state and in particular right after its Run, changes
\* neither StateMeta, the ledger, the directories, the trash, the read cache,
\* the open handles nor the loaded chains: a rewritten transaction stays
\* rewritten and a stopped chain stays unloaded.
C24_NoopRollbacks ==
    [][(/\ last'.op \in {"Rollback", "Reorg"}
        /\ last'.desc.method \in {"StopBlockChain", "UpdateBlockChainData"})
           => UNCHANGED wvars]_vars

C24_Witness ==
    /\ bcName = "xuper"
    /\ last = [op |-> "Reorg", desc |-> GoodStop, env |-> NoFailure]
    /\ "side1" \in pre.loaded
    /\ "side1" \notin loaded
    /\ PathExists(fs, "side1")
    /\ err = OK

\* C25: two nodes of one chain that start from the same StateMeta and ledger
\* and run the same descriptor return the same (no error, or the same error)
\* and end with the same StateMeta and ledger, whatever their configuration
\* flags, their register and the directories under their data path.
C25_SameOutcomeOnEveryNode ==
    (peer.set /\ last.op = "Run")
        => (err = peer.err /\ meta = peer.meta /\ ledger = peer.ledger)

\* C26: a second Run of the descriptor that has just been run, in the same
\* environment, changes neither StateMeta nor the directories and the trash,
\* whatever the two calls return.
C26_ReplayIdempotent ==
    [][last'.op = "Replay" => (meta' = meta /\ fs' = fs /\ trash' = trash)]_vars

C26_Witness ==
    /\ last.op = "Replay"
    /\ last.desc.method = "UpdateMaxBlockSize"
    /\ WellTyped(last.desc)
    /\ pre.context.set
    /\ OldValue(last.desc) = pre.meta.maxBlockSize
    /\ NewValue(last.desc) # pre.meta.maxBlockSize
    /\ meta.maxBlockSize = NewValue(last.desc)
    /\ err = ErrOldBlockSize

\* C27: GetVATWhiteList holds the six parameter updates and UpdateBlockChainData
\* and nothing else; each of its names is in the run table and in the rollback
\* table and none is root-only, so that Run of such a method is neither
\* unimplemented nor refused by the root gate, on a side chain either.
C27_VATWhiteList ==
    /\ GetVATWhiteList = ParamMethods \cup {"UpdateBlockChainData"}
    /\ Cardinality(ParamMethods) = 6
    /\ GetVATWhiteList \cap {"CreateBlockChain", "StopBlockChain"} = {}
    /\ GetVATWhiteList \subseteq runKernelFuncMap \cap rollbackKernelFuncMap
    /\ GetVATWhiteList \cap rootKernelMap = {}
    /\ (last.op \in {"Run", "Replay"} /\ last.desc.method \in GetVATWhiteList)
           => err \notin {ErrMethodNotImplemented, ErrPermissionDenied}

C27_Witness ==
    /\ bcName = "side1"
    /\ last.op = "Run"
    /\ last.desc.method \in GetVATWhiteList
    /\ last.desc.method = "UpdateBlockChainData"
    /\ err = OK
    /\ Rewritten(ledger.txs["T1"])

\* C28: when Run of CreateBlockChain returns success on a kernel with a
\* ChainRegister wired, the named directory holds a fully initialized chain
\* (genesis file written, root block confirmed and played) and the register
\* holds the chain, whatever CreateBlockChain calls came before.
C28_CreatedChainComplete ==
    (/\ ChainCall("Run", "CreateBlockChain")
     /\ err = OK
     /\ register)
        => /\ PathExists(fs, last.desc.args.name.val)
           /\ fs[last.desc.args.name.val] = "chain"
           /\ last.desc.args.name.val \in loaded

\* the mutex of a kernel is held only by an invocation that is between its
\* Lock and its deferred Unlock on that kernel, and every invocation that has
\* taken the mutex gets back to idle, the mutex released
MutexReleased ==
    /\ [](\A k \in Kernels :
              mutex[k] # "free"
                  => /\ pc[mutex[k]] \in {"lookup", "handler", "return"}
                     /\ call[mutex[k]].kernel = k)
    /\ \A t \in Threads : (pc[t] = "lookup") ~> (pc[t] = "idle")

\* C29: a Run that has taken the kernel mutex returns nil or an error, and the
\* mutex is released when it is over, so that no later Run or Rollback waits
\* for an invocation that has finished.
C29_RunReturns ==
    (last.op = "Run" /\ last.desc.method \in runKernelFuncMap)
        => /\ err # Panic
           /\ \A k \in Kernels : mutex[k] = "free"

\* C30: a Run whose validator rejects the descriptor leaves the node as it
\* was; a Run of UpdateBlockChainData that fails validation, with a signature
\* that does not decode included, leaves the read cache with the entries it had.
C30_RejectedRunIsPure ==
    (/\ RewriteCall("Run")
     /\ pre.context.set
     /\ validateUpdateBlockChainData(last.desc).err # OK
     /\ err # OK)
        => /\ cache = pre.cache
           /\ ledger = pre.ledger
           /\ meta = pre.meta
           /\ fs = pre.fs
           /\ loaded = pre.loaded

\* the argument is a list whose elements all decode to an invoke request with
\* a module name
ReservedListValid(v) ==
    /\ v.kind = "list"
    /\ \A i \in DOMAIN v.val : v.val[i].kind = "map" /\ v.val[i].val.module_name # ""

ReservedValidationErrors ==
    {ErrTransfer, ErrReservedFormat}
    \cup {ErrMissArg(n) : n \in {"old_reserved_contracts", "new_reserved_contracts"}}
    \cup {ErrArgInvalid(n) : n \in {"old_reserved_contracts", "new_reserved_contracts"}}

\* C31: Run and Rollback of UpdateReservedContract return a validation error
\* and write nothing unless old_reserved_contracts and new_reserved_contracts
\* are both present, both lists, and every element of both decodes to a record
\* with a non-empty ModuleName; Rollback, which applies only the old list, is
\* held to the same.
C31_BothReservedListsValidated ==
    (/\ last.op \in {"Run", "Rollback"}
     /\ last.desc.method = "UpdateReservedContract"
     /\ pre.context.set
     /\ \/ ~ReservedListValid(last.desc.args.old_reserved_contracts)
        \/ ~ReservedListValid(last.desc.args.new_reserved_contracts))
        => /\ err \in ReservedValidationErrors
           /\ Untouched

C31_Witness ==
    /\ last.op = "Rollback"
    /\ last.desc.method = "UpdateReservedContract"
    /\ pre.context.set
    /\ ReservedListValid(last.desc.args.old_reserved_contracts)
    /\ last.desc.args.new_reserved_contracts = Lst(<<IRNoModule>>)
    /\ err = ErrReservedFormat
    /\ meta = pre.meta

\* C32: a numeric argument of UpdateMaxBlockSize, UpdateIrreversibleSlideWindow
\* or UpdateNewAccountResourceAmount that is no int64 exactly (a fractional
\* part, or out of range) is rejected: Run and Rollback return an error and
\* StateMeta is neither compared with nor set to a truncated value.
C32_InexactNumberRejected ==
    (/\ last.op \in {"Run", "Rollback"}
     /\ last.desc.method \in NumericMethods
     /\ pre.context.set
     /\ \E n \in {OldName(last.desc.method), NewName(last.desc.method)} :
            /\ last.desc.args[n].kind = "float64"
            /\ last.desc.args[n].half)
        => /\ err # OK
           /\ meta = pre.meta

\* the field of StateMeta a parameter-update method names
MetaField(method) ==
    CASE method = "UpdateMaxBlockSize" -> "maxBlockSize"
      [] method = "UpdateIrreversibleSlideWindow" -> "irreversibleSlideWindow"
      [] method = "UpdateNewAccountResourceAmount" -> "newAccountResourceAmount"
      [] method = "UpdateGasPrice" -> "gasPrice"
      [] method = "UpdateForbiddenContract" -> "forbiddenContract"
      [] method = "UpdateReservedContract" -> "reservedContracts"

\* C33: Run and Rollback of a parameter update change at most the StateMeta
\* parameter the method names; every other parameter, the filesystem, the
\* ledger, the read cache and the register's chains are as they were.
C33_OneParameterOnly ==
    (last.op \in {"Run", "Rollback", "Reorg"} /\ last.desc.method \in ParamMethods)
        => /\ \A f \in DOMAIN meta \ {MetaField(last.desc.method)} :
                  meta[f] = pre.meta[f]
           /\ fs = pre.fs /\ trash = pre.trash /\ handles = pre.handles
           /\ ledger = pre.ledger /\ cache = pre.cache
           /\ loaded = pre.loaded

C33_Witness ==
    /\ last.op = "Run"
    /\ last.desc.method = "UpdateGasPrice"
    /\ err = OK
    /\ meta.gasPrice # pre.meta.gasPrice
    /\ \A f \in DOMAIN meta \ {"gasPrice"} : meta[f] = pre.meta[f]

\* C34: on a kernel initialised without a ChainRegister, Run of StopBlockChain
\* returns nil or an error and does not fault, as Run of CreateBlockChain and
\* its rollback do.
C34_StopWithoutRegister ==
    /\ (ChainCall("Run", "StopBlockChain") /\ ~register) => err # Panic
    /\ (/\ last.op \in {"Run", "Rollback", "Reorg"}
        /\ last.desc.method = "CreateBlockChain"
        /\ pre.context.set
        /\ ~register) => err # Panic

\* the identity is the stream's peer's, its address is the one of its public
\* key, its timestamp is within the timeout of the clock and its signature is
\* by that key over PeerID, Addr and Timestamp
IdentityVerified(s, v, tsNow) ==
    /\ v.PeerID = s.p
    /\ v.Pubkey \in {"pkAuth", "pkOther"}
    /\ v.Addr = AddressOf(v.Pubkey)
    /\ ParseInt(v.Timestamp).ok
    /\ ParseInt(v.Timestamp).val - tsNow < DefautltAuthTimeout
    /\ tsNow - ParseInt(v.Timestamp).val < DefautltAuthTimeout
    /\ v.Sign.asn1
    /\ v.Sign.signer = v.Pubkey
    /\ v.Sign.over = UsingSha256(v.PeerID \o v.Addr \o v.Timestamp)

AllVerified ==
    /\ authRes.msg.unmarshals
    /\ \A i \in DOMAIN authRes.msg.auth :
           IdentityVerified(authRes.before, authRes.msg.auth[i], authRes.nows[i])

\* C35: the authentication handler sets isAuth and records addresses only
\* when every identity of the request passed the peer, address, timestamp and
\* signature checks, and then the addresses recorded are those of the request
\* in its order; when an identity fails, isAuth and the recorded addresses are
\* as before and the response is the error response, with an error.
C35_AuthenticatedOnlyIfAllVerified ==
    authRes.op = "handleGetAuthentication"
        => /\ AllVerified
                  => /\ stream.isAuth
                     /\ stream.receivedAddr =
                            [i \in DOMAIN authRes.msg.auth |-> authRes.msg.auth[i].Addr]
                     /\ authRes.err = OK
                     /\ authRes.res.errorType = "SUCCESS"
           /\ ~AllVerified
                  => /\ stream = authRes.before
                     /\ authRes.err # OK
                     /\ authRes.res.errorType = "GET_AUTHENTICATION_ERROR"
           /\ stream.p = authRes.before.p

C35_Witness ==
    /\ authRes.op = "handleGetAuthentication"
    /\ authRes.before.isAuth
    /\ authRes.before.receivedAddr = <<"addrOther", "addrAuth">>
    /\ Len(authRes.msg.auth) = 2
    /\ IdentityVerified(authRes.before, authRes.msg.auth[1], authRes.nows[1])
    /\ ~IdentityVerified(authRes.before, authRes.msg.auth[2], authRes.nows[2])
    /\ authRes.err = E("handleGetAuthentication timestamp expired")
    /\ stream = authRes.before

=============================================================================
